---------------------------- MODULE Spec2Model ----------------------------
(***************************************************************************)
(* Model of the cutit editing engine (crates/engine): the rational time    *)
(* base and rescale, the single-track timeline with split / cut, the       *)
(* project with move / trim / preview mapping, and the command facade      *)
(* Engine<M> with its playhead, id allocators, preview cache and the       *)
(* media backend as a nondeterministic collaborator.                       *)
(*                                                                         *)
(* Option<T> is modelled as a sequence: None == <<>>, Some(x) == <<x>>.     *)
(* Result<T> is a record [ok |-> TRUE, v |-> ...] or                        *)
(* [ok |-> FALSE, err |-> "<EngineError variant>"].                         *)
(***************************************************************************)
EXTENDS Integers, Sequences, FiniteSets, TLC

(***************************************************************************)
(* Bounds of the model.                                                    *)
(***************************************************************************)
\* Stand-in for i64::MAX: the largest value of the model's signed word.
I64_MAX == 16777215
\* Largest "ordinary" timeline tick offered as a command argument.
MaxTick == 4
\* Project::split is offered only while the timeline has fewer segments.
MaxSegments == 3
\* Import is offered only while next_asset_id <= MaxAssetId.
MaxAssetId == 2
\* A command that allocates a segment id is offered only while
\* next_segment_id <= MaxSegmentId.
MaxSegmentId == 3
\* SetPlayhead is offered only while it leaves at most MaxCached cache entries
\* (under every command) or MaxCachedScrub entries (under scrubbing).
MaxCached == 1
MaxCachedScrub == 3
\* Successful move / trim commands offered after one import: without
\* SetPlayhead in the command set (SpecEdit), and with it (Spec).
MaxEdits == 2
MaxEditsScrub == 1
\* Failed prefetch decodes the backend is allowed before one succeeds.
MaxPrefetchFailures == 1
\* rescale is applied to every ts in -MaxSmallTs..MaxSmallTs (and to the
\* extremes and the sample values), and a round trip is repeated MaxTrips times.
MaxSmallTs == 64
MaxTrips == 1
\* Capacity of the cache that is exercised on its own.
CacheCapacity == 2

I64_MIN == -I64_MAX - 1

None == <<>>
Some(x) == <<x>>
IsSome(o) == o # <<>>
Unwrap(o) == o[1]

Ok(v) == [ok |-> TRUE, v |-> v]
Err(e) == [ok |-> FALSE, err |-> e]

Max2(a, b) == IF a >= b THEN a ELSE b
Min2(a, b) == IF a <= b THEN a ELSE b
AbsI(a) == IF a < 0 THEN -a ELSE a

(***************************************************************************)
(* i64 primitives (core::i64).                                             *)
(***************************************************************************)
InI64(x) == I64_MIN <= x /\ x <= I64_MAX
\* i64::clamp(self, min, max), min <= max
clamp(x, lo, hi) == IF x < lo THEN lo ELSE IF x > hi THEN hi ELSE x
saturating_add(a, b) == clamp(a + b, I64_MIN, I64_MAX)
saturating_sub(a, b) == clamp(a - b, I64_MIN, I64_MAX)
\* two's-complement wrap of an out-of-range sum (release build of `a + b`)
wrapping(x) == ((x - I64_MIN) % (I64_MAX - I64_MIN + 1)) + I64_MIN

(***************************************************************************)
(* time.rs                                                                 *)
(***************************************************************************)
Rational(n, d) == [num |-> n, den |-> d]
TIMELINE_TIME_BASE == Rational(1, 1000000)

\* Rational::new
Rational_new(n, d) ==
    IF n <= 0 \/ d <= 0 THEN Err("InvalidRational") ELSE Ok(Rational(n, d))

\* Deserialize for Rational: the fields go through Rational::new
Rational_deserialize(n, d) == Rational_new(n, d)

\* media_ffmpeg::Rational::new (crates/media-ffmpeg): rejects den <= 0 and
\* num = 0, accepts a negative num
media_ffmpeg_Rational_new(n, d) ==
    IF d <= 0 \/ n = 0 THEN Err("InvalidRational") ELSE Ok(Rational(n, d))

\* From<media_ffmpeg::Rational> for Rational: the fields are copied
Rational_from(value) == Rational(value.num, value.den)

\* Quotient and remainder of the widened product a * n by d (a, n >= 0, d > 0),
\* by binary long multiplication so that no intermediate exceeds the checker's
\* machine integers; the remainder is the exact i128 remainder, the quotient
\* the exact i128 quotient up to I64_MAX + 1 and I64_MAX + 1 beyond (where
\* rescale clamps).  A product that fits is formed directly.
RECURSIVE wide_divmod(_, _, _)
wide_divmod(a, n, d) ==
    IF a <= 1 \/ (a <= 1000 /\ n <= 2000000) THEN <<(a * n) \div d, (a * n) % d>>
    ELSE IF n = 0 \/ a <= 2147483647 \div n
    THEN <<Min2((a * n) \div d, I64_MAX + 1), (a * n) % d>>
    ELSE LET h == wide_divmod(a \div 2, n, d)
             add == IF a % 2 = 1 THEN n ELSE 0
             r == 2 * h[2] + (add % d)
         IN <<Min2(2 * h[1] + (add \div d) + (r \div d), I64_MAX + 1), r % d>>

\* div_round_nearest dropping the remainder.
div_round_nearest_truncating(ts, mul, den) ==
    LET qr == wide_divmod(AbsI(ts), mul, den)
    IN IF ts < 0 THEN -qr[1] ELSE qr[1]

\* div_round_nearest rounding every non-zero remainder away from zero.
div_round_nearest_rounding_up(ts, mul, den) ==
    LET qr == wide_divmod(AbsI(ts), mul, den)
        out == IF qr[2] > 0 THEN qr[1] + 1 ELSE qr[1]
    IN IF ts < 0 THEN -out ELSE out

\* div_round_nearest(num, den) applied to num = ts * mul: |num| / den, plus one
\* when remainder * 2 >= den, sign restored.
div_round_nearest(ts, mul, den) ==
    LET qr == wide_divmod(AbsI(ts), mul, den)
        out == IF qr[2] * 2 >= den THEN qr[1] + 1 ELSE qr[1]
    IN IF ts < 0 THEN -out ELSE out

\* rescale without the final clamp (`as i64` of the rounded i128).
rescale_unclamped(ts, from, to) ==
    div_round_nearest(ts, from.num * to.den, from.den * to.num)

\* rescale(ts, from, to)
rescale(ts, from, to) ==
    clamp(div_round_nearest(ts, from.num * to.den, from.den * to.num),
          I64_MIN, I64_MAX)


(***************************************************************************)
(* timeline.rs                                                             *)
(***************************************************************************)
\* struct Segment
Segment(id, asset_id, siv, sov, sia, soa, start, duration) ==
    [id |-> id, asset_id |-> asset_id,
     src_in_video |-> siv, src_out_video |-> sov,
     src_in_audio |-> sia, src_out_audio |-> soa,
     timeline_start |-> start, timeline_duration |-> duration]

\* Iterator::position: the first index (1-based) of a non-empty index set.
FirstIndex(S) ==
    IF S = {} THEN None ELSE Some(CHOOSE i \in S : \A j \in S : i <= j)

SegEnd(segment) == segment.timeline_start + segment.timeline_duration

\* Timeline::duration_tl
duration_tl(segments) ==
    IF segments = <<>> THEN 0 ELSE SegEnd(segments[Len(segments)])

\* find_segment_index looking at the segment ends alone.
find_segment_index_ignoring_start(segments, t_tl) ==
    FirstIndex({i \in DOMAIN segments : t_tl < SegEnd(segments[i])})

\* Timeline::find_segment_index
find_segment_index(segments, t_tl) ==
    FirstIndex({i \in DOMAIN segments :
        segments[i].timeline_start <= t_tl /\ t_tl < SegEnd(segments[i])})

\* is_boundary_split_point forgetting the segment ends.
is_boundary_split_point_starts_only(segments, at_tl) ==
    \E i \in DOMAIN segments : at_tl = segments[i].timeline_start

\* Timeline::is_boundary_split_point
is_boundary_split_point(segments, at_tl) ==
    \E i \in DOMAIN segments :
        at_tl = segments[i].timeline_start \/ at_tl = SegEnd(segments[i])

\* find_cut_segment_index preferring the segment that ends at at_tl.
find_cut_segment_index_ending_first(segments, at_tl) ==
    LET ending == FirstIndex({i \in DOMAIN segments : SegEnd(segments[i]) = at_tl})
    IN IF IsSome(ending) THEN ending ELSE find_segment_index(segments, at_tl)

\* Timeline::find_cut_segment_index
find_cut_segment_index(segments, at_tl) ==
    LET starting == FirstIndex({i \in DOMAIN segments :
                        segments[i].timeline_start = at_tl})
    IN IF IsSome(starting) THEN starting ELSE find_segment_index(segments, at_tl)

\* The sum `src_in + delta` of split_stream_range leaves the i64 range.
split_sum_overflows(src_in, src_out, left_duration_tl, time_base) ==
    /\ IsSome(src_in) /\ IsSome(src_out) /\ IsSome(time_base)
    /\ ~InI64(Unwrap(src_in)
              + rescale(left_duration_tl, TIMELINE_TIME_BASE, Unwrap(time_base)))

\* split_stream_range without the clamp into [src_in, src_out].
split_stream_range_unclamped(src_in, src_out, left_duration_tl, time_base) ==
    IF ~(IsSome(src_in) /\ IsSome(src_out) /\ IsSome(time_base))
    THEN <<src_out, src_in>>
    ELSE LET delta == rescale(left_duration_tl, TIMELINE_TIME_BASE, Unwrap(time_base))
             split == wrapping(Unwrap(src_in) + delta)
         IN <<Some(split), Some(split)>>

\* split_stream_range: <<left out, right in>>; an out-of-range sum wraps.
split_stream_range(src_in, src_out, left_duration_tl, time_base) ==
    IF ~(IsSome(src_in) /\ IsSome(src_out) /\ IsSome(time_base))
    THEN <<src_out, src_in>>
    ELSE LET delta == rescale(left_duration_tl, TIMELINE_TIME_BASE, Unwrap(time_base))
             split == clamp(wrapping(Unwrap(src_in) + delta),
                            Unwrap(src_in), Unwrap(src_out))
         IN <<Some(split), Some(split)>>

\* Vec::insert / Vec::remove on 1-based sequences
InsertAt(s, i, x) == SubSeq(s, 1, i - 1) \o <<x>> \o SubSeq(s, i, Len(s))
RemoveAt(s, i) == SubSeq(s, 1, i - 1) \o SubSeq(s, i + 1, Len(s))

\* split_segment giving the right piece the whole original duration.
split_segment_whole_right(segments, at_tl, next_segment_id, video_time_base, audio_time_base) ==
    IF is_boundary_split_point(segments, at_tl) THEN Err("SplitPointAtBoundary")
    ELSE LET found == find_segment_index(segments, at_tl) IN
    IF ~IsSome(found) THEN Err("SegmentNotFound")
    ELSE LET index == Unwrap(found)
             current == segments[index]
             local_tl == at_tl - current.timeline_start
             v == split_stream_range(current.src_in_video, current.src_out_video,
                                     local_tl, video_time_base)
             a == split_stream_range(current.src_in_audio, current.src_out_audio,
                                     local_tl, audio_time_base)
             left == [current EXCEPT !.timeline_duration = local_tl,
                                     !.src_out_video = v[1],
                                     !.src_out_audio = a[1]]
             right == [current EXCEPT !.id = next_segment_id,
                                      !.src_in_video = v[2],
                                      !.src_in_audio = a[2],
                                      !.timeline_start = at_tl]
         IN Ok(InsertAt([segments EXCEPT ![index] = left], index + 1, right))

\* split_segment numbering the right piece by the segment count.
split_segment_numbering_by_count(segments, at_tl, next_segment_id, video_time_base, audio_time_base) ==
    IF is_boundary_split_point(segments, at_tl) THEN Err("SplitPointAtBoundary")
    ELSE LET found == find_segment_index(segments, at_tl) IN
    IF ~IsSome(found) THEN Err("SegmentNotFound")
    ELSE LET index == Unwrap(found)
             current == segments[index]
             left_duration == at_tl - current.timeline_start
             v == split_stream_range(current.src_in_video, current.src_out_video,
                                     left_duration, video_time_base)
             a == split_stream_range(current.src_in_audio, current.src_out_audio,
                                     left_duration, audio_time_base)
             left == [current EXCEPT !.timeline_duration = left_duration,
                                     !.src_out_video = v[1],
                                     !.src_out_audio = a[1]]
             right == [current EXCEPT !.id = Len(segments) + 1,
                                      !.src_in_video = v[2],
                                      !.src_in_audio = a[2],
                                      !.timeline_start = at_tl,
                                      !.timeline_duration =
                                          current.timeline_duration - left_duration]
         IN Ok(InsertAt([segments EXCEPT ![index] = left], index + 1, right))

\* Timeline::split_segment
split_segment(segments, at_tl, next_segment_id, video_time_base, audio_time_base) ==
    IF is_boundary_split_point(segments, at_tl) THEN Err("SplitPointAtBoundary")
    ELSE LET found == find_segment_index(segments, at_tl) IN
    IF ~IsSome(found) THEN Err("SegmentNotFound")
    ELSE LET index == Unwrap(found)
             current == segments[index]
             local_tl == at_tl - current.timeline_start
             left_duration == local_tl
             right_duration == current.timeline_duration - local_tl
             v == split_stream_range(current.src_in_video, current.src_out_video,
                                     left_duration, video_time_base)
             a == split_stream_range(current.src_in_audio, current.src_out_audio,
                                     left_duration, audio_time_base)
             left == [current EXCEPT !.timeline_duration = left_duration,
                                     !.src_out_video = v[1],
                                     !.src_out_audio = a[1]]
             right == [current EXCEPT !.id = next_segment_id,
                                      !.src_in_video = v[2],
                                      !.src_in_audio = a[2],
                                      !.timeline_start = at_tl,
                                      !.timeline_duration = right_duration]
         IN Ok(InsertAt([segments EXCEPT ![index] = left], index + 1, right))

\* cut_segment leaving the later segments where they are.
cut_segment_without_shift(segments, at_tl) ==
    LET found == find_cut_segment_index(segments, at_tl) IN
    IF ~IsSome(found) THEN Err("SegmentNotFound")
    ELSE Ok(RemoveAt(segments, Unwrap(found)))

\* Timeline::cut_segment: the timeline after the cut (the removed segment is
\* segments[Unwrap(find_cut_segment_index(segments, at_tl))]).
cut_segment(segments, at_tl) ==
    LET found == find_cut_segment_index(segments, at_tl) IN
    IF ~IsSome(found) THEN Err("SegmentNotFound")
    ELSE LET index == Unwrap(found)
             removed_duration == segments[index].timeline_duration
             rest == RemoveAt(segments, index)
         IN Ok([i \in DOMAIN rest |->
                  IF i >= index
                  THEN [rest[i] EXCEPT !.timeline_start = @ - removed_duration]
                  ELSE rest[i]])

(***************************************************************************)
(* project.rs                                                              *)
(***************************************************************************)
\* struct MediaAsset: video / audio are Option<stream info>; the stream info
\* carries the stream's time base (and the video frame rate, when known).
MediaAsset(id, path, video, audio, dur) ==
    [id |-> id, path |-> path, video |-> video, audio |-> audio, duration_tl |-> dur]

\* struct Project {assets, timeline: Timeline {segments}}
Project(assets, segments) == [assets |-> assets, segments |-> segments]

\* asset.video.map(|video| video.time_base)
stream_time_base(stream) ==
    IF IsSome(stream) THEN Some(Unwrap(stream).time_base) ELSE None

\* Project::from_single_asset
from_single_asset(asset_id, segment_id, probed) ==
    Project(
        <<MediaAsset(asset_id, probed.path,
                     IF IsSome(probed.video)
                     THEN Some([time_base |-> Unwrap(probed.video).time_base,
                                frame_rate |-> Unwrap(probed.video).frame_rate])
                     ELSE None,
                     IF IsSome(probed.audio)
                     THEN Some([time_base |-> Unwrap(probed.audio).time_base,
                                sample_rate |-> Unwrap(probed.audio).sample_rate,
                                channels |-> Unwrap(probed.audio).channels])
                     ELSE None,
                     probed.duration_tl)>>,
        <<Segment(segment_id, asset_id,
                  IF IsSome(probed.video) THEN Some(Unwrap(probed.video).src_in) ELSE None,
                  IF IsSome(probed.video) THEN Some(Unwrap(probed.video).src_out) ELSE None,
                  IF IsSome(probed.audio) THEN Some(Unwrap(probed.audio).src_in) ELSE None,
                  IF IsSome(probed.audio) THEN Some(Unwrap(probed.audio).src_out) ELSE None,
                  0, probed.duration_tl)>>)

\* Project::asset_by_id
asset_by_id(project, asset_id) ==
    LET found == FirstIndex({i \in DOMAIN project.assets :
                                project.assets[i].id = asset_id})
    IN IF IsSome(found) THEN Ok(project.assets[Unwrap(found)]) ELSE Err("MissingAsset")

\* Timeline::find_segment_index_by_id (called by project.rs)
find_segment_index_by_id(segments, segment_id) ==
    FirstIndex({i \in DOMAIN segments : segments[i].id = segment_id})

\* normalize_playhead clamping to the duration instead of the last tick.
normalize_playhead_to_duration(t_tl, duration) ==
    IF duration <= 0 THEN 0 ELSE clamp(t_tl, 0, duration)

\* normalize_playhead
normalize_playhead(t_tl, duration) ==
    IF duration <= 0 THEN 0 ELSE clamp(t_tl, 0, duration - 1)

\* The sum `src_in_video + rescale(..)` of Project::preview_request_at.
preview_target_sum(project, t_tl) ==
    LET segment == project.segments[Unwrap(find_segment_index(project.segments, t_tl))]
        video == Unwrap(asset_by_id(project, segment.asset_id).v.video)
    IN Unwrap(segment.src_in_video)
       + rescale(t_tl - segment.timeline_start, TIMELINE_TIME_BASE, video.time_base)

\* Project::preview_request_at: Ok([path, source_tl]) or the error; an
\* out-of-range target sum wraps.
preview_request_at(project, t_tl) ==
    LET found == find_segment_index(project.segments, t_tl) IN
    IF ~IsSome(found) THEN Err("SegmentNotFound")
    ELSE LET segment == project.segments[Unwrap(found)]
             asset == asset_by_id(project, segment.asset_id)
         IN IF ~asset.ok THEN asset
            ELSE IF ~IsSome(asset.v.video) THEN Err("MissingVideoStream")
            ELSE IF ~IsSome(segment.src_in_video) THEN Err("MissingVideoStream")
            ELSE LET video == Unwrap(asset.v.video)
                     src_target_video_ts == wrapping(preview_target_sum(project, t_tl))
                     src_target_tl == rescale(src_target_video_ts, video.time_base,
                                              TIMELINE_TIME_BASE)
                 IN Ok([path |-> asset.v.path, source_tl |-> Max2(src_target_tl, 0)])

\* Project::split
Project_split(project, at_tl, next_segment_id) ==
    LET found == find_segment_index(project.segments, at_tl) IN
    IF ~IsSome(found)
    THEN IF is_boundary_split_point(project.segments, at_tl)
         THEN Err("SplitPointAtBoundary")
         ELSE Err("SegmentNotFound")
    ELSE LET asset == asset_by_id(project, project.segments[Unwrap(found)].asset_id)
         IN IF ~asset.ok THEN asset
            ELSE LET r == split_segment(project.segments, at_tl, next_segment_id,
                                        stream_time_base(asset.v.video),
                                        stream_time_base(asset.v.audio))
                 IN IF r.ok THEN Ok([project EXCEPT !.segments = r.v]) ELSE r

\* Project::cut
Project_cut(project, at_tl) ==
    LET r == cut_segment(project.segments, at_tl)
    IN IF r.ok THEN Ok([project EXCEPT !.segments = r.v]) ELSE r

\* move_segment clamping the new start at zero only.
Project_move_segment_unclamped(project, segment_id, new_start_tl) ==
    LET found == find_segment_index_by_id(project.segments, segment_id) IN
    IF ~IsSome(found) THEN Err("SegmentIdNotFound")
    ELSE Ok([project EXCEPT !.segments[Unwrap(found)].timeline_start =
                                Max2(new_start_tl, 0)])

\* move_segment letting the last segment start anywhere up to i64::MAX.
Project_move_segment_last_unbounded(project, segment_id, new_start_tl) ==
    LET found == find_segment_index_by_id(project.segments, segment_id) IN
    IF ~IsSome(found) THEN Err("SegmentIdNotFound")
    ELSE LET index == Unwrap(found)
             segs == project.segments
             prev_end == IF index = 1 THEN 0
                         ELSE saturating_add(segs[index - 1].timeline_start,
                                             segs[index - 1].timeline_duration)
             duration == segs[index].timeline_duration
             max_start == IF index + 1 <= Len(segs)
                          THEN saturating_sub(segs[index + 1].timeline_start, duration)
                          ELSE I64_MAX
             clamped == clamp(Max2(new_start_tl, 0), prev_end, Max2(max_start, prev_end))
         IN Ok([project EXCEPT !.segments[index].timeline_start = clamped])

\* move_segment shifting the source in-points along with the segment.
Project_move_segment_with_source(project, segment_id, new_start_tl) ==
    LET found == find_segment_index_by_id(project.segments, segment_id) IN
    IF ~IsSome(found) THEN Err("SegmentIdNotFound")
    ELSE LET index == Unwrap(found)
             segs == project.segments
             prev_end == IF index = 1 THEN 0
                         ELSE saturating_add(segs[index - 1].timeline_start,
                                             segs[index - 1].timeline_duration)
             duration == segs[index].timeline_duration
             max_start == IF index + 1 <= Len(segs)
                          THEN saturating_sub(segs[index + 1].timeline_start, duration)
                          ELSE saturating_sub(I64_MAX, Max2(duration, 0))
             clamped == clamp(Max2(new_start_tl, 0), prev_end, Max2(max_start, prev_end))
             delta_tl == clamped - segs[index].timeline_start
             shifted(point) == IF IsSome(point)
                               THEN Some(saturating_add(Unwrap(point), delta_tl))
                               ELSE None
         IN Ok([project EXCEPT !.segments[index] =
                  [segs[index] EXCEPT
                     !.timeline_start = clamped,
                     !.src_in_video = shifted(@),
                     !.src_in_audio = shifted(@)]])

\* Project::move_segment
Project_move_segment(project, segment_id, new_start_tl) ==
    LET found == find_segment_index_by_id(project.segments, segment_id) IN
    IF ~IsSome(found) THEN Err("SegmentIdNotFound")
    ELSE LET index == Unwrap(found)
             segs == project.segments
             prev_end == IF index = 1 THEN 0
                         ELSE saturating_add(segs[index - 1].timeline_start,
                                             segs[index - 1].timeline_duration)
             duration == segs[index].timeline_duration
             max_start == IF index + 1 <= Len(segs)
                          THEN saturating_sub(segs[index + 1].timeline_start, duration)
                          ELSE saturating_sub(I64_MAX, Max2(duration, 0))
             clamped == clamp(Max2(new_start_tl, 0), prev_end, Max2(max_start, prev_end))
         IN Ok([project EXCEPT !.segments[index].timeline_start = clamped])

\* shift_stream_point without the pin at zero.
shift_stream_point_unpinned(point, delta_tl, time_base) ==
    IF ~(IsSome(point) /\ IsSome(time_base)) THEN point
    ELSE Some(saturating_add(Unwrap(point),
                             rescale(delta_tl, TIMELINE_TIME_BASE, Unwrap(time_base))))

\* shift_stream_point
shift_stream_point(point, delta_tl, time_base) ==
    IF ~(IsSome(point) /\ IsSome(time_base)) THEN point
    ELSE LET delta_stream == rescale(delta_tl, TIMELINE_TIME_BASE, Unwrap(time_base))
             shifted == saturating_add(Unwrap(point), delta_stream)
         IN Some(Max2(shifted, 0))

\* trim_segment_start keeping the duration, so that the end moves with the start.
Project_trim_segment_start_keeping_duration(project, segment_id, new_start_tl) ==
    LET found == find_segment_index_by_id(project.segments, segment_id) IN
    IF ~IsSome(found) THEN Err("SegmentIdNotFound")
    ELSE LET index == Unwrap(found)
             segs == project.segments
             segment == segs[index]
             asset == asset_by_id(project, segment.asset_id)
         IN IF ~asset.ok THEN asset
            ELSE LET video_tb == stream_time_base(asset.v.video)
                     audio_tb == stream_time_base(asset.v.audio)
                     prev_end == IF index = 1 THEN 0 ELSE SegEnd(segs[index - 1])
                     old_start == segment.timeline_start
                     old_end == old_start + segment.timeline_duration
                     clamped_start == clamp(new_start_tl, prev_end, old_end - 1)
                     delta_tl == clamped_start - old_start
                 IN Ok([project EXCEPT !.segments[index] =
                     [segment EXCEPT
                        !.timeline_start = clamped_start,
                        !.src_in_video = shift_stream_point(@, delta_tl, video_tb),
                        !.src_in_audio = shift_stream_point(@, delta_tl, audio_tb)]])

\* Project::trim_segment_start
Project_trim_segment_start(project, segment_id, new_start_tl) ==
    LET found == find_segment_index_by_id(project.segments, segment_id) IN
    IF ~IsSome(found) THEN Err("SegmentIdNotFound")
    ELSE LET index == Unwrap(found)
             segs == project.segments
             segment == segs[index]
             asset == asset_by_id(project, segment.asset_id)
         IN IF ~asset.ok THEN asset
            ELSE LET video_tb == stream_time_base(asset.v.video)
                     audio_tb == stream_time_base(asset.v.audio)
                     prev_end == IF index = 1 THEN 0 ELSE SegEnd(segs[index - 1])
                     old_start == segment.timeline_start
                     old_end == old_start + segment.timeline_duration
                     clamped_start == clamp(new_start_tl, prev_end, old_end - 1)
                     delta_tl == clamped_start - old_start
                 IN Ok([project EXCEPT !.segments[index] =
                     [segment EXCEPT
                        !.timeline_start = clamped_start,
                        !.timeline_duration = old_end - clamped_start,
                        !.src_in_video = shift_stream_point(@, delta_tl, video_tb),
                        !.src_in_audio = shift_stream_point(@, delta_tl, audio_tb)]])

\* Project::trim_segment_end
Project_trim_segment_end(project, segment_id, new_end_tl) ==
    LET found == find_segment_index_by_id(project.segments, segment_id) IN
    IF ~IsSome(found) THEN Err("SegmentIdNotFound")
    ELSE LET index == Unwrap(found)
             segs == project.segments
             segment == segs[index]
             asset == asset_by_id(project, segment.asset_id)
         IN IF ~asset.ok THEN asset
            ELSE LET video_tb == stream_time_base(asset.v.video)
                     audio_tb == stream_time_base(asset.v.audio)
                     old_start == segment.timeline_start
                     old_end == old_start + segment.timeline_duration
                     next_start == IF index + 1 <= Len(segs)
                                   THEN segs[index + 1].timeline_start
                                   ELSE I64_MAX
                     clamped_end == clamp(new_end_tl, old_start + 1, next_start)
                     delta_tl == clamped_end - old_end
                 IN Ok([project EXCEPT !.segments[index] =
                     [segment EXCEPT
                        !.timeline_duration = clamped_end - old_start,
                        !.src_out_video = shift_stream_point(@, delta_tl, video_tb),
                        !.src_out_audio = shift_stream_point(@, delta_tl, audio_tb)]])

(***************************************************************************)
(* cache.rs                                                                *)
(***************************************************************************)
\* PreviewFrameCache::new: entries is the key set of the HashMap (every frame
\* the backend decodes is the same opaque payload), lru_order the VecDeque.
PreviewFrameCache_new(capacity, bucket_size_tl) ==
    [capacity |-> capacity, bucket_size_tl |-> bucket_size_tl,
     entries |-> {}, lru_order |-> <<>>]

\* PreviewFrameCache::make_key (div_euclid of a non-negative value)
make_key(cache, path, source_tl) ==
    [path |-> path, bucket |-> Max2(source_tl, 0) \div cache.bucket_size_tl]

\* contains looking at the path alone.
cache_contains_any_bucket(cache, path, source_tl) ==
    \E key \in cache.entries : key.path = path

\* PreviewFrameCache::contains
cache_contains(cache, path, source_tl) ==
    make_key(cache, path, source_tl) \in cache.entries

SeqWithout(s, x) == SelectSeq(s, LAMBDA e : e # x)

\* touch leaving a key that is already queued where it is.
touch_keeping_position(cache, key) ==
    IF \E i \in DOMAIN cache.lru_order : cache.lru_order[i] = key THEN cache
    ELSE [cache EXCEPT !.lru_order = Append(@, key)]

\* PreviewFrameCache::touch
touch(cache, key) ==
    [cache EXCEPT !.lru_order = Append(SeqWithout(@, key), key)]

\* evict_if_needed stopping one entry above the capacity.
RECURSIVE evict_if_needed_late(_)
evict_if_needed_late(cache) ==
    IF Cardinality(cache.entries) > cache.capacity + 1 /\ cache.lru_order # <<>>
    THEN evict_if_needed_late([cache EXCEPT !.entries = @ \ {Head(cache.lru_order)},
                                            !.lru_order = Tail(@)])
    ELSE cache

\* PreviewFrameCache::evict_if_needed
RECURSIVE evict_if_needed(_)
evict_if_needed(cache) ==
    IF Cardinality(cache.entries) > cache.capacity /\ cache.lru_order # <<>>
    THEN evict_if_needed([cache EXCEPT !.entries = @ \ {Head(cache.lru_order)},
                                       !.lru_order = Tail(@)])
    ELSE cache

\* PreviewFrameCache::get: the cache after the call (touched on a hit)
cache_get(cache, path, source_tl) ==
    IF cache_contains(cache, path, source_tl)
    THEN touch(cache, make_key(cache, path, source_tl))
    ELSE cache

\* PreviewFrameCache::insert
cache_insert(cache, path, source_tl) ==
    LET key == make_key(cache, path, source_tl)
    IN evict_if_needed(touch([cache EXCEPT !.entries = @ \cup {key}], key))

\* PreviewFrameCache::clear
cache_clear(cache) == [cache EXCEPT !.entries = {}, !.lru_order = <<>>]

\* PreviewFrameCache::reconfigure_bucket_size (called by Engine::import)
reconfigure_bucket_size(cache, bucket_size_tl) ==
    [cache EXCEPT !.bucket_size_tl = bucket_size_tl]

(***************************************************************************)
(* export.rs                                                               *)
(***************************************************************************)
\* The video checks keeping a zero-length range.
export_video_status_keeping_empty(project, segment) ==
    LET asset == asset_by_id(project, segment.asset_id) IN
    IF ~asset.ok THEN "MissingAsset"
    ELSE IF ~IsSome(asset.v.video) THEN "MissingVideoStream"
    ELSE IF ~IsSome(segment.src_in_video) THEN "MissingVideoRange"
    ELSE IF ~IsSome(segment.src_out_video) THEN "MissingVideoRange"
    ELSE IF Unwrap(segment.src_out_video) < Unwrap(segment.src_in_video)
         THEN "InvalidVideoRange"
    ELSE "keep"

\* The video checks of one timeline segment in build_video_export_plan's
\* first loop: an error name, "skip" (zero-length range) or "keep".
export_video_status(project, segment) ==
    LET asset == asset_by_id(project, segment.asset_id) IN
    IF ~asset.ok THEN "MissingAsset"
    ELSE IF ~IsSome(asset.v.video) THEN "MissingVideoStream"
    ELSE IF ~IsSome(segment.src_in_video) THEN "MissingVideoRange"
    ELSE IF ~IsSome(segment.src_out_video) THEN "MissingVideoRange"
    ELSE IF Unwrap(segment.src_out_video) < Unwrap(segment.src_in_video)
         THEN "InvalidVideoRange"
    ELSE IF Unwrap(segment.src_out_video) = Unwrap(segment.src_in_video) THEN "skip"
    ELSE "keep"

\* The audio checks of one selected segment in the second loop.
export_audio_status(project, segment) ==
    LET asset == asset_by_id(project, segment.asset_id).v IN
    IF ~IsSome(asset.audio) THEN "MissingAudioStream"
    ELSE IF ~IsSome(segment.src_in_audio) THEN "MissingAudioRange"
    ELSE IF ~IsSome(segment.src_out_audio) THEN "MissingAudioRange"
    ELSE IF Unwrap(segment.src_out_audio) < Unwrap(segment.src_in_audio)
         THEN "InvalidAudioRange"
    ELSE "keep"

\* inputs with one entry per selected segment.
RECURSIVE export_inputs_per_segment(_, _, _)
export_inputs_per_segment(project, selected, inputs) ==
    IF selected = <<>> THEN inputs
    ELSE LET path == asset_by_id(project, Head(selected).asset_id).v.path
         IN export_inputs_per_segment(project, Tail(selected), Append(inputs, path))

\* inputs: the asset paths of the selected segments, deduplicated in order of
\* first use.
RECURSIVE export_inputs(_, _, _)
export_inputs(project, selected, inputs) ==
    IF selected = <<>> THEN inputs
    ELSE LET path == asset_by_id(project, Head(selected).asset_id).v.path
         IN export_inputs(project, Tail(selected),
                IF \E i \in DOMAIN inputs : inputs[i] = path
                THEN inputs ELSE Append(inputs, path))

\* build_video_export_plan
build_video_export_plan(project) ==
    LET segs == project.segments
        vstat == [i \in DOMAIN segs |-> export_video_status(project, segs[i])]
        verr == FirstIndex({i \in DOMAIN segs : vstat[i] \notin {"skip", "keep"}})
    IN IF IsSome(verr) THEN Err(vstat[Unwrap(verr)])
       ELSE
       LET selected == SelectSeq(segs,
                          LAMBDA sg : export_video_status(project, sg) = "keep")
           inputs == export_inputs(project, selected, <<>>)
           has_audio == \E i \in DOMAIN selected :
               IsSome(asset_by_id(project, selected[i].asset_id).v.audio)
           astat == [i \in DOMAIN selected |-> export_audio_status(project, selected[i])]
           aerr == FirstIndex({i \in DOMAIN selected : astat[i] # "keep"})
           index_of(path) == CHOOSE i \in DOMAIN inputs : inputs[i] = path
           first_audio ==
               LET first == FirstIndex({i \in DOMAIN selected :
                       IsSome(asset_by_id(project, selected[i].asset_id).v.audio)})
               IN Unwrap(asset_by_id(project, selected[Unwrap(first)].asset_id).v.audio)
           plan_segment(sg) ==
               LET asset == asset_by_id(project, sg.asset_id).v
                   out_a == Unwrap(sg.src_out_audio)
               IN [input_index |-> index_of(asset.path) - 1,
                   src_in_video |-> Unwrap(sg.src_in_video),
                   src_out_video |-> Unwrap(sg.src_out_video),
                   src_video_time_base |-> Unwrap(asset.video).time_base,
                   src_in_audio |-> IF has_audio THEN sg.src_in_audio ELSE None,
                   src_out_audio |->
                       IF ~has_audio THEN None
                       ELSE IF out_a = Unwrap(sg.src_in_audio)
                            THEN Some(saturating_add(out_a, 1))
                            ELSE Some(out_a),
                   src_audio_time_base |->
                       IF has_audio THEN Some(Unwrap(asset.audio).time_base) ELSE None]
       IN IF has_audio /\ IsSome(aerr) THEN Err(astat[Unwrap(aerr)])
          ELSE Ok([inputs |-> inputs,
                   segments |-> [i \in DOMAIN selected |-> plan_segment(selected[i])],
                   audio |-> IF has_audio
                             THEN Some([sample_rate |-> first_audio.sample_rate,
                                        channels |-> first_audio.channels])
                             ELSE None])

(***************************************************************************)
(* api.rs: constants and pure helpers                                      *)
(***************************************************************************)
PREVIEW_CACHE_CAPACITY == 96
DEFAULT_PREVIEW_CACHE_BUCKET_TL == 33333
PREFETCH_RADIUS_DIRECTIONAL == 18
PREFETCH_RADIUS_IDLE == 120
PREFETCH_MAX_DECODES_PER_REQUEST == 1

\* prefetch_offsets trying every forward offset before the backward ones.
prefetch_offsets_forward_first(direction) ==
    CASE direction = "Forward" -> [i \in 1..PREFETCH_RADIUS_DIRECTIONAL |-> i]
      [] direction = "Backward" -> [i \in 1..PREFETCH_RADIUS_DIRECTIONAL |-> -i]
      [] OTHER -> [i \in 1..(2 * PREFETCH_RADIUS_IDLE) |->
                      IF i <= PREFETCH_RADIUS_IDLE THEN i
                      ELSE -(i - PREFETCH_RADIUS_IDLE)]

\* prefetch_offsets
prefetch_offsets(direction) ==
    CASE direction = "Forward" -> [i \in 1..PREFETCH_RADIUS_DIRECTIONAL |-> i]
      [] direction = "Backward" -> [i \in 1..PREFETCH_RADIUS_DIRECTIONAL |-> -i]
      [] OTHER -> [i \in 1..(2 * PREFETCH_RADIUS_IDLE) |->
                      IF i % 2 = 1 THEN (i + 1) \div 2 ELSE -(i \div 2)]

\* frame_duration_tl_from_frame_rate
frame_duration_tl_from_frame_rate(frame_rate) ==
    LET numerator == TIMELINE_TIME_BASE.den * frame_rate.den
        denominator == Max2(frame_rate.num, 1)
        rounded == (numerator + denominator \div 2) \div denominator
    IN Min2(Max2(rounded, 1), I64_MAX)

\* preview_bucket_tl_for_project
preview_bucket_tl_for_project(project) ==
    LET bucket_of(asset) ==
            LET video == Unwrap(asset.video) IN
            IF IsSome(video.frame_rate)
            THEN frame_duration_tl_from_frame_rate(Unwrap(video.frame_rate))
            ELSE Max2(AbsI(rescale(1, video.time_base, TIMELINE_TIME_BASE)), 1)
        with_video == {i \in DOMAIN project.assets : IsSome(project.assets[i].video)}
    IN IF with_video = {} THEN DEFAULT_PREVIEW_CACHE_BUCKET_TL
       ELSE LET best == CHOOSE i \in with_video : \A j \in with_video :
                            bucket_of(project.assets[i]) <= bucket_of(project.assets[j])
            IN bucket_of(project.assets[best])

(***************************************************************************)
(* The media backend (trait MediaBackend) as the model sees it: what a     *)
(* probe may return.  Decode and export either succeed or fail.            *)
(***************************************************************************)
ProbedVideoStream(tb, fr, src_in, src_out) ==
    [time_base |-> tb, frame_rate |-> fr, src_in |-> src_in, src_out |-> src_out]
ProbedAudioStream(tb, src_in, src_out, sample_rate, channels) ==
    [time_base |-> tb, src_in |-> src_in, src_out |-> src_out,
     sample_rate |-> sample_rate, channels |-> channels]
ProbedMedia(path, dur, video, audio) ==
    [path |-> path, duration_tl |-> dur, video |-> video, audio |-> audio]

\* An asset with both streams: video at half a tick per microsecond, audio at
\* two ticks per microsecond, both starting at 0 and spanning the duration.
ProbeAV ==
    ProbedMedia("a.mp4", 4,
        Some(ProbedVideoStream(Rational(1, 500000), None, 0, 2)),
        Some(ProbedAudioStream(Rational(1, 2000000), 0, 8, 48000, 2)))
\* An audio-only asset whose stream (two ticks per microsecond, from tick 1 to
\* tick 3) is shorter than the container duration.
ProbeA ==
    ProbedMedia("b.mp4", 3, None,
        Some(ProbedAudioStream(Rational(1, 2000000), 1, 3, 44100, 1)))
Probes == {ProbeAV, ProbeA}

\* api.rs tests: sample_probed_media
sample_probed_media ==
    ProbedMedia("demo.mp4", 1200000,
        Some(ProbedVideoStream(Rational(1, 90000), Some(Rational(30000, 1001)),
            90000,
            90000 + rescale(1200000, TIMELINE_TIME_BASE, Rational(1, 90000)))),
        Some(ProbedAudioStream(Rational(1, 48000),
            48000,
            48000 + rescale(1200000, TIMELINE_TIME_BASE, Rational(1, 48000)),
            48000, 2)))

(***************************************************************************)
(* api.rs: struct Engine<M>                                                *)
(***************************************************************************)
VARIABLES
    project,          \* Option<Project>
    playhead_tl,      \* i64
    next_asset_id,    \* u64
    next_segment_id,  \* u64
    preview_cache,    \* PreviewFrameCache
    last_preview,     \* Option<LastPreviewTarget>
    panicked,         \* the engine thread has panicked
    edits,            \* successful move / trim commands since the last import
    last,             \* the last command: its name, its result, the events it
                      \* returned and the source times it asked the backend to decode
    history,          \* what has happened so far: the segment id the last import
                      \* allocated, the splits that succeeded since, and the
                      \* cache keys in the order of their last get-hit or insert
    rescaled,         \* a rescale call and its round trip: ts, from, to, the
                      \* result, the result converted back, the trips made before
    bridge            \* ui bridge.rs: None when handle_command is called
                      \* directly; otherwise the two channels of
                      \* spawn_engine_bridge, the worker thread's position and
                      \* what the UI has sent and received

evars == <<project, playhead_tl, next_asset_id, next_segment_id,
           preview_cache, last_preview>>
vars == <<project, playhead_tl, next_asset_id, next_segment_id,
          preview_cache, last_preview, panicked, edits, last, history, rescaled,
          bridge>>

History(import_segment_id, splits, recency) ==
    [import_segment_id |-> import_segment_id, splits |-> splits, recency |-> recency]

RescaleCall(ts, from, to, out, back, trips) ==
    [ts |-> ts, from |-> from, to |-> to, out |-> out, back |-> back, trips |-> trips]

Reply(cmd, result, events, decodes) ==
    [cmd |-> cmd, result |-> result, events |-> events, decodes |-> decodes]

\* The reply of a successful Export, with the plan handed to the backend's
\* export_video.
ReplyExport(events, plan) ==
    [cmd |-> "Export", result |-> "Ok", events |-> events, decodes |-> <<>>,
     plan |-> plan]

ProjectChanged == [type |-> "ProjectChanged"]
PlayheadChanged(t_tl) == [type |-> "PlayheadChanged", t_tl |-> t_tl]
PreviewFrameReady(t_tl) == [type |-> "PreviewFrameReady", t_tl |-> t_tl]
ExportProgress(done, total) == [type |-> "ExportProgress", done |-> done, total |-> total]
ExportFinished == [type |-> "ExportFinished"]

\* Engine::new
Init ==
    /\ project = None
    /\ playhead_tl = 0
    /\ next_asset_id = 1
    /\ next_segment_id = 1
    /\ preview_cache = PreviewFrameCache_new(PREVIEW_CACHE_CAPACITY,
                                             DEFAULT_PREVIEW_CACHE_BUCKET_TL)
    /\ last_preview = None
    /\ panicked = FALSE
    /\ edits = 0
    /\ last = Reply("new", "Ok", <<>>, <<>>)
    /\ history = History(0, 0, <<>>)
    /\ bridge = None
    /\ rescaled = RescaleCall(0, TIMELINE_TIME_BASE, TIMELINE_TIME_BASE, None, None, 0)

\* Event::Error(EngineErrorEvent::from_error(&error))
ErrorEvent(e) == [type |-> "Error", error |-> e]

\* enum Command: its name and its arguments.
Command(cmd, args) == [cmd |-> cmd, args |-> args]

\* command_rx.recv() in the worker of spawn_engine_bridge: the worker takes
\* the oldest command in the command channel, a `cmd`, once every event of
\* the command before has been sent.  Without a bridge handle_command is
\* called with any command.
ReceivesNamed(cmd) ==
    IsSome(bridge) =>
        /\ Unwrap(bridge).worker
        /\ Unwrap(bridge).pending = <<>>
        /\ Unwrap(bridge).commands # <<>>
        /\ Head(Unwrap(bridge).commands).cmd = cmd

\* The same, the command taken being `command` with its arguments.
Receives(command) ==
    /\ ReceivesNamed(command.cmd)
    /\ IsSome(bridge) => Head(Unwrap(bridge).commands).args = command.args

\* The match on handle_command's result in the worker: the events of Ok, one
\* Error event for Err, to be sent one by one; a panic ends the thread.  A
\* ProjectChanged event sent to the UI carries the snapshot of the project the
\* command left, of which the UI reads duration_tl.
Forwards ==
    IF ~IsSome(bridge) THEN UNCHANGED bridge
    ELSE LET b == Unwrap(bridge)
             snapshot == [type |-> "ProjectChanged",
                          duration_tl |-> duration_tl(Unwrap(project').segments)]
             events == IF last'.result = "Ok"
                       THEN [i \in DOMAIN last'.events |->
                               IF last'.events[i].type = "ProjectChanged"
                               THEN snapshot ELSE last'.events[i]]
                       ELSE IF last'.result = "panic" THEN <<>>
                       ELSE <<ErrorEvent(last'.result)>>
         IN bridge' = Some([b EXCEPT
                !.commands = Tail(@),
                !.handled = Append(@, [command |-> Head(b.commands),
                                        result |-> last'.result,
                                        events |-> events]),
                !.pending = events,
                !.worker = (last'.result # "panic")])

\* A command that returns Err(e) before it has changed anything.
Rejected(cmd, e) ==
    /\ last' = Reply(cmd, e, <<>>, <<>>)
    /\ UNCHANGED <<evars, panicked, edits, history, rescaled>>

\* The engine thread panics: no later command is handled.
Panics(cmd) ==
    /\ panicked' = TRUE
    /\ last' = Reply(cmd, "panic", <<>>, <<>>)
    /\ UNCHANGED <<edits, history, rescaled>>

\* invalidate_preview_cache forgetting the cache.
invalidate_preview_cache_keeping_frames ==
    /\ preview_cache' = preview_cache
    /\ last_preview' = None

\* Engine::invalidate_preview_cache
invalidate_preview_cache ==
    /\ preview_cache' = cache_clear(preview_cache)
    /\ last_preview' = None

\* Engine::import leaving the playhead where the previous project had it.
Import_keeping_playhead(probed) ==
    /\ ~panicked
    /\ Receives(Command("Import", <<probed.path>>))
    /\ next_asset_id <= MaxAssetId
    /\ next_segment_id <= MaxSegmentId
    /\ LET p == from_single_asset(next_asset_id, next_segment_id, probed)
       IN /\ project' = Some(p)
          /\ preview_cache' = cache_clear(reconfigure_bucket_size(
                                  preview_cache, preview_bucket_tl_for_project(p)))
    /\ next_asset_id' = next_asset_id + 1
    /\ next_segment_id' = next_segment_id + 1
    /\ playhead_tl' = playhead_tl
    /\ last_preview' = None
    /\ last' = Reply("Import", "Ok", <<ProjectChanged, PlayheadChanged(playhead_tl)>>, <<>>)
    /\ edits' = 0
    /\ history' = History(next_segment_id, 0, <<>>)
    /\ UNCHANGED <<panicked, rescaled>>
    /\ Forwards

\* Engine::import, the probe succeeding with `probed`
Import(probed) ==
    /\ ~panicked
    /\ Receives(Command("Import", <<probed.path>>))
    /\ next_asset_id <= MaxAssetId
    /\ next_segment_id <= MaxSegmentId
    /\ LET p == from_single_asset(next_asset_id, next_segment_id, probed)
       IN /\ project' = Some(p)
          /\ preview_cache' = cache_clear(reconfigure_bucket_size(
                                  preview_cache, preview_bucket_tl_for_project(p)))
    /\ next_asset_id' = next_asset_id + 1
    /\ next_segment_id' = next_segment_id + 1
    /\ playhead_tl' = 0
    /\ last_preview' = None
    /\ last' = Reply("Import", "Ok", <<ProjectChanged, PlayheadChanged(0)>>, <<>>)
    /\ edits' = 0
    /\ history' = History(next_segment_id, 0, <<>>)
    /\ UNCHANGED <<panicked, rescaled>>
    /\ Forwards

\* Engine::import, the probe failing
ImportFails ==
    /\ ~panicked
    /\ ReceivesNamed("Import")
    /\ Rejected("Import", "Backend")
    /\ Forwards

\* scrub_direction never recognising a direction.
scrub_direction_always_unknown(previous, request) == "Unknown"

\* Engine::scrub_direction
scrub_direction(previous, request) ==
    IF ~IsSome(previous) THEN "Unknown"
    ELSE IF Unwrap(previous).path # request.path THEN "Unknown"
    ELSE IF request.source_tl > Unwrap(previous).source_tl THEN "Forward"
    ELSE IF request.source_tl < Unwrap(previous).source_tl THEN "Backward"
    ELSE "Unknown"

\* The source time of the neighbour `offset` buckets away.
PrefetchSourceAt(cache, request, offset) ==
    request.source_tl + cache.bucket_size_tl * offset

\* The neighbours at `offsets` that pass the checks of the prefetch loop
\* (checked_mul, checked_add, source_tl >= 0, not cached), as source times.
PrefetchPassing(cache, request, offsets) ==
    LET kept == SelectSeq(offsets,
                          LAMBDA offset :
                             /\ InI64(cache.bucket_size_tl * offset)
                             /\ InI64(PrefetchSourceAt(cache, request, offset))
                             /\ PrefetchSourceAt(cache, request, offset) >= 0
                             /\ ~cache_contains(cache, request.path,
                                                PrefetchSourceAt(cache, request, offset)))
    IN [k \in DOMAIN kept |-> PrefetchSourceAt(cache, request, kept[k])]

\* Engine::prefetch_neighbors: the source times, in offset order, that pass the
\* loop's checks (checked_mul, checked_add, source_tl >= 0, not cached) and so
\* reach the backend while no prefetch decode has succeeded.
prefetch_candidates(cache, request, direction) ==
    PrefetchPassing(cache, request, prefetch_offsets(direction))

\* Engine::prefetch_neighbors over the candidates, the backend failing the
\* first `failures` decodes it is asked for: <<cache after, source times decoded>>.
prefetch_neighbors(cache, request, candidates, failures) ==
    IF PREFETCH_MAX_DECODES_PER_REQUEST = 0 THEN <<cache, <<>>>>
    ELSE IF failures < Len(candidates)
    THEN <<cache_insert(cache, request.path, candidates[failures + 1]),
           SubSeq(candidates, 1, failures + 1)>>
    ELSE <<cache, candidates>>

\* The target sum of preview_request_at leaves the i64 range.
preview_sum_overflows(proj, t_tl) ==
    LET found == find_segment_index(proj.segments, t_tl) IN
    /\ IsSome(found)
    /\ LET segment == proj.segments[Unwrap(found)]
           asset == asset_by_id(proj, segment.asset_id)
       IN /\ asset.ok
          /\ IsSome(asset.v.video)
          /\ IsSome(segment.src_in_video)
          /\ ~InI64(preview_target_sum(proj, t_tl))

\* Engine::set_playhead.  decode_ok: the backend decodes the requested frame;
\* failures: how many prefetch decodes it fails first; checked: the build
\* panics on arithmetic overflow (otherwise it wraps).  The playhead is
\* assigned before the request is formed and the frame decoded.
SetPlayhead(t_tl, max_cached) ==
    /\ ~panicked
    /\ Receives(Command("SetPlayhead", <<t_tl>>))
    /\ IF ~IsSome(project) THEN Rejected("SetPlayhead", "ProjectNotLoaded")
       ELSE
       \E clamped \in {normalize_playhead(t_tl, duration_tl(Unwrap(project).segments))} :
       \E request \in {preview_request_at(Unwrap(project), clamped)} :
       LET proj == Unwrap(project)
           overflows == preview_sum_overflows(proj, clamped)
           req == request.v
           direction == scrub_direction(last_preview, req)
           cache_hit == cache_contains(preview_cache, req.path, req.source_tl)
           got == cache_get(preview_cache, req.path, req.source_tl)
           candidates == prefetch_candidates(got, req, direction)
           events == <<PlayheadChanged(clamped), PreviewFrameReady(clamped)>>
           \* the steps after the request has been formed
           Decoded ==
               IF ~request.ok /\ request.err = "SegmentNotFound"
               THEN /\ last' = Reply("SetPlayhead", "Ok", <<PlayheadChanged(clamped)>>, <<>>)
                    /\ UNCHANGED <<preview_cache, last_preview, panicked>>
               ELSE IF ~request.ok
               THEN /\ last' = Reply("SetPlayhead", request.err, <<>>, <<>>)
                    /\ UNCHANGED <<preview_cache, last_preview, panicked>>
               ELSE IF cache_hit /\ direction = "Unknown"
               THEN \E found \in {candidates} :
                    \E failures \in (0..MaxPrefetchFailures) \cup {2 * PREFETCH_RADIUS_IDLE} :
                    LET pre == prefetch_neighbors(got, req, found, failures)
                    IN /\ preview_cache' = pre[1]
                       /\ last_preview' = Some(req)
                       /\ last' = Reply("SetPlayhead", "Ok", events, pre[2])
                       /\ UNCHANGED panicked
               ELSE IF cache_hit
               THEN /\ preview_cache' = got
                    /\ last_preview' = Some(req)
                    /\ last' = Reply("SetPlayhead", "Ok", events, <<>>)
                    /\ UNCHANGED panicked
               ELSE \E decode_ok \in BOOLEAN :
                    IF decode_ok
                    THEN /\ preview_cache' = cache_insert(preview_cache, req.path,
                                                          req.source_tl)
                         /\ last_preview' = Some(req)
                         /\ last' = Reply("SetPlayhead", "Ok", events, <<req.source_tl>>)
                         /\ UNCHANGED panicked
                    ELSE /\ last' = Reply("SetPlayhead", "Backend", <<>>,
                                          <<req.source_tl>>)
                         /\ UNCHANGED <<preview_cache, last_preview, panicked>>
       IN
       /\ playhead_tl' = clamped
       /\ UNCHANGED <<project, next_asset_id, next_segment_id, edits, history, rescaled>>
       /\ IF overflows
          THEN \E checked \in BOOLEAN :
               IF checked
               THEN /\ Panics("SetPlayhead")
                    /\ UNCHANGED <<preview_cache, last_preview>>
               ELSE Decoded
          ELSE Decoded
       /\ Cardinality(preview_cache'.entries) <= max_cached
    /\ Forwards

\* split_stream_range panics: Ord::clamp asserts min <= max, and a checked
\* build panics on the overflowing sum.
split_stream_panics(src_in, src_out, left_duration_tl, time_base, checked) ==
    /\ IsSome(src_in) /\ IsSome(src_out) /\ IsSome(time_base)
    /\ \/ Unwrap(src_in) > Unwrap(src_out)
       \/ checked /\ split_sum_overflows(src_in, src_out, left_duration_tl, time_base)

\* Timeline::split_segment panics in one of its two split_stream_range calls.
split_panics(proj, at_tl, checked) ==
    LET current == proj.segments[Unwrap(find_segment_index(proj.segments, at_tl))]
        asset == asset_by_id(proj, current.asset_id).v
        left_duration == at_tl - current.timeline_start
    IN \/ split_stream_panics(current.src_in_video, current.src_out_video,
                              left_duration, stream_time_base(asset.video), checked)
       \/ split_stream_panics(current.src_in_audio, current.src_out_audio,
                              left_duration, stream_time_base(asset.audio), checked)

\* Engine::split calling the allocator before Project::split has validated.
Split_allocating_first(at_tl) ==
    /\ ~panicked
    /\ Receives(Command("Split", <<at_tl>>))
    /\ IF ~IsSome(project) THEN Rejected("Split", "ProjectNotLoaded")
       ELSE
       LET proj == Unwrap(project)
           r == Project_split(proj, at_tl, next_segment_id)
       IN IF ~r.ok
          THEN /\ next_segment_id <= MaxSegmentId
               /\ next_segment_id' = next_segment_id + 1
               /\ last' = Reply("Split", r.err, <<>>, <<>>)
               /\ UNCHANGED <<project, playhead_tl, next_asset_id, preview_cache,
                              last_preview, panicked, edits, history, rescaled>>
          ELSE /\ Len(proj.segments) < MaxSegments
               /\ next_segment_id <= MaxSegmentId
               /\ project' = Some(r.v)
               /\ next_segment_id' = next_segment_id + 1
               /\ invalidate_preview_cache
               /\ last' = Reply("Split", "Ok", <<ProjectChanged>>, <<>>)
               /\ history' = [history EXCEPT !.splits = @ + 1]
               /\ UNCHANGED <<playhead_tl, next_asset_id, panicked, edits, rescaled>>
    /\ Forwards

\* Engine::split
Split(at_tl) ==
    /\ ~panicked
    /\ Receives(Command("Split", <<at_tl>>))
    /\ IF ~IsSome(project) THEN Rejected("Split", "ProjectNotLoaded")
       ELSE
       LET proj == Unwrap(project)
           r == Project_split(proj, at_tl, next_segment_id)
       IN IF ~r.ok THEN Rejected("Split", r.err)
          ELSE /\ Len(proj.segments) < MaxSegments
               /\ next_segment_id <= MaxSegmentId
               /\ \E checked \in BOOLEAN :
                    IF split_panics(proj, at_tl, checked)
                    THEN Panics("Split") /\ UNCHANGED evars
                    ELSE /\ project' = Some(r.v)
                         /\ next_segment_id' = next_segment_id + 1
                         /\ invalidate_preview_cache
                         /\ last' = Reply("Split", "Ok", <<ProjectChanged>>, <<>>)
                         /\ history' = [history EXCEPT !.splits = @ + 1]
                         /\ UNCHANGED <<playhead_tl, next_asset_id, panicked, edits,
                                        rescaled>>
    /\ Forwards

\* The common tail of Engine::cut / move_segment / trim_segment_start /
\* trim_segment_end once the project operation returned `r`; `counted` is 1
\* for a move or trim and 0 for a cut, `budget` the bound on edits.
Edited(cmd, r, counted, budget) ==
    IF ~r.ok THEN Rejected(cmd, r.err)
    ELSE /\ edits + counted <= budget
         /\ edits' = edits + counted
         /\ project' = Some(r.v)
         /\ playhead_tl' = normalize_playhead(playhead_tl, duration_tl(r.v.segments))
         /\ invalidate_preview_cache
         /\ last' = Reply(cmd, "Ok", <<ProjectChanged>>, <<>>)
         /\ UNCHANGED <<next_asset_id, next_segment_id, panicked, history, rescaled>>

\* Engine::cut
Cut(at_tl) ==
    /\ ~panicked
    /\ Receives(Command("Cut", <<at_tl>>))
    /\ IF ~IsSome(project) THEN Rejected("Cut", "ProjectNotLoaded")
       ELSE Edited("Cut", Project_cut(Unwrap(project), at_tl), 0, edits)
    /\ Forwards

\* A move or trim of `segment_id` is offered while fewer than `budget` edits
\* have succeeded, and after that as long as it fails: for a segment, or an
\* asset of the segment, that the project does not hold.
Offered(segment_id, budget) ==
    IF edits < budget THEN TRUE
    ELSE IF ~IsSome(project) THEN TRUE
    ELSE LET found == find_segment_index_by_id(Unwrap(project).segments, segment_id)
         IN IF ~IsSome(found) THEN TRUE
            ELSE ~asset_by_id(Unwrap(project),
                              Unwrap(project).segments[Unwrap(found)].asset_id).ok

\* Engine::move_segment
MoveSegment(segment_id, new_start_tl, budget) ==
    /\ ~panicked
    /\ Receives(Command("MoveSegment", <<segment_id, new_start_tl>>))
    /\ IF ~IsSome(project) THEN Rejected("MoveSegment", "ProjectNotLoaded")
       ELSE Edited("MoveSegment",
                   Project_move_segment(Unwrap(project), segment_id, new_start_tl),
                   1, budget)
    /\ Forwards

\* Engine::trim_segment_start
TrimSegmentStart(segment_id, new_start_tl, budget) ==
    /\ ~panicked
    /\ Receives(Command("TrimSegmentStart", <<segment_id, new_start_tl>>))
    /\ IF ~IsSome(project) THEN Rejected("TrimSegmentStart", "ProjectNotLoaded")
       ELSE Edited("TrimSegmentStart",
                   Project_trim_segment_start(Unwrap(project), segment_id, new_start_tl),
                   1, budget)
    /\ Forwards

\* Engine::trim_segment_end
TrimSegmentEnd(segment_id, new_end_tl, budget) ==
    /\ ~panicked
    /\ Receives(Command("TrimSegmentEnd", <<segment_id, new_end_tl>>))
    /\ IF ~IsSome(project) THEN Rejected("TrimSegmentEnd", "ProjectNotLoaded")
       ELSE Edited("TrimSegmentEnd",
                   Project_trim_segment_end(Unwrap(project), segment_id, new_end_tl),
                   1, budget)
    /\ Forwards

\* Engine::export taking a missing project for an empty one.
Export_of_empty_project ==
    /\ ~panicked
    /\ Receives(Command("Export", <<>>))
    /\ IF ~IsSome(project)
       THEN /\ last' = Reply("Export", "Ok", <<ExportProgress(0, 0), ExportFinished>>, <<>>)
            /\ UNCHANGED <<evars, panicked, edits, history, rescaled>>
       ELSE \E plan \in {build_video_export_plan(Unwrap(project))} :
            IF ~plan.ok THEN Rejected("Export", plan.err)
            ELSE \E export_ok \in BOOLEAN :
                   IF ~export_ok THEN Rejected("Export", "Backend")
                   ELSE /\ last' = ReplyExport(
                              <<ExportProgress(Len(plan.v.segments), Len(plan.v.segments)),
                                ExportFinished>>, plan.v)
                        /\ UNCHANGED <<evars, panicked, edits, history, rescaled>>
    /\ Forwards

\* Engine::export; export_ok: the backend's export_video succeeds on the plan.
Export ==
    /\ ~panicked
    /\ Receives(Command("Export", <<>>))
    /\ IF ~IsSome(project) THEN Rejected("Export", "ProjectNotLoaded")
       ELSE \E plan \in {build_video_export_plan(Unwrap(project))} :
            IF ~plan.ok THEN Rejected("Export", plan.err)
            ELSE \E export_ok \in BOOLEAN :
                   IF ~export_ok THEN Rejected("Export", "Backend")
                   ELSE /\ last' = ReplyExport(
                              <<ExportProgress(Len(plan.v.segments), Len(plan.v.segments)),
                                ExportFinished>>, plan.v)
                        /\ UNCHANGED <<evars, panicked, edits, history, rescaled>>
    /\ Forwards

\* Command::CancelExport
CancelExport ==
    /\ ~panicked
    /\ Receives(Command("CancelExport", <<>>))
    /\ last' = Reply("CancelExport", "Ok", <<>>, <<>>)
    /\ UNCHANGED <<evars, panicked, edits, history, rescaled>>
    /\ Forwards

(***************************************************************************)
(* The commands offered to the engine.                                     *)
(***************************************************************************)
\* i64 arguments: the two extremes and the ticks around the imported assets.
Ticks == {I64_MIN, I64_MAX} \cup (0..MaxTick)
\* u64 segment ids: every id the engine can have allocated, and one it cannot.
SegmentIds == 1..(MaxSegmentId + 1)

\* i64 arguments of SetPlayhead.
PlayTicks == {I64_MIN, 1, 2, I64_MAX}

\* The segment ids of `ids` whose move or trim is offered.
OfferedIds(ids, budget) == {id \in ids : Offered(id, budget)}

\* Every command but SetPlayhead, the moves and trims taking their segment
\* ids from `ids` and their positions from `ticks`.
NextEditOver(ids, ticks, budget) ==
    \/ \E probed \in Probes : Import(probed)
    \/ ImportFails
    \/ \E t \in Ticks : Split(t)
    \/ \E t \in Ticks : Cut(t)
    \/ \E id \in OfferedIds(ids, budget), t \in ticks : MoveSegment(id, t, budget)
    \/ \E id \in OfferedIds(ids, budget), t \in ticks : TrimSegmentStart(id, t, budget)
    \/ \E id \in OfferedIds(ids, budget), t \in ticks : TrimSegmentEnd(id, t, budget)
    \/ Export
    \/ CancelExport

\* Every command but SetPlayhead.
NextEdit(budget) == NextEditOver(SegmentIds, Ticks, budget)

\* Moves and trims offered between scrubs: of the first segment and of a
\* segment the engine cannot have, to the extremes and to a tick inside the
\* imported assets.
ScrubSegmentIds == {1, MaxSegmentId + 1}
ScrubEditTicks == {I64_MIN, 1, I64_MAX}

Next ==
    \/ NextEditOver(ScrubSegmentIds, ScrubEditTicks, MaxEditsScrub)
    \/ \E t \in PlayTicks : SetPlayhead(t, MaxCached)

\* The engine under every command.
Spec == Init /\ [][Next]_vars

\* The engine under the edit commands alone.
SpecEdit == Init /\ [][NextEdit(MaxEdits)]_vars

\* Scrubbing: imports, splits and SetPlayhead with room for MaxCachedScrub frames.
NextScrub ==
    \/ \E probed \in Probes : Import(probed)
    \/ \E t \in Ticks : Split(t)
    \/ \E t \in PlayTicks : SetPlayhead(t, MaxCachedScrub)

SpecScrub == Init /\ [][NextScrub]_vars

(***************************************************************************)
(* rescale on its own: a call, the call back, and the round trip repeated. *)
(***************************************************************************)
\* Time bases: the timeline's, the sample asset's video and audio, a frame
\* clock, and two with a numerator other than 1.
RescaleBases ==
    {TIMELINE_TIME_BASE, Rational(1, 90000), Rational(1, 48000),
     Rational(1, 30000), Rational(1001, 30000), Rational(2, 3)}

\* i64 arguments: the ticks around zero, the extremes, the values of the
\* time.rs examples and a run of ticks around one second.
RescaleTs ==
    (-MaxSmallTs..MaxSmallTs)
        \cup {I64_MIN, I64_MIN + 1, I64_MAX - 1, I64_MAX}
        \cup {1001, 48000, 90000, -90000}
        \cup (999995..1000005)

InitRescale ==
    /\ project = None
    /\ playhead_tl = 0
    /\ next_asset_id = 1
    /\ next_segment_id = 1
    /\ preview_cache = PreviewFrameCache_new(PREVIEW_CACHE_CAPACITY,
                                             DEFAULT_PREVIEW_CACHE_BUCKET_TL)
    /\ last_preview = None
    /\ panicked = FALSE
    /\ edits = 0
    /\ last = Reply("new", "Ok", <<>>, <<>>)
    /\ history = History(0, 0, <<>>)
    /\ bridge = None
    /\ \E ts \in RescaleTs, from \in RescaleBases, to \in RescaleBases :
           rescaled = RescaleCall(ts, from, to, None, None, 0)

\* rescale(ts, from, to)
Rescale ==
    /\ ~IsSome(rescaled.out)
    /\ rescaled' = [rescaled EXCEPT
                        !.out = Some(rescale(rescaled.ts, rescaled.from, rescaled.to))]
    /\ UNCHANGED <<evars, panicked, edits, last, history, bridge>>

\* rescale(out, to, from): the result converted back
RescaleBack ==
    /\ IsSome(rescaled.out)
    /\ ~IsSome(rescaled.back)
    /\ rescaled' = [rescaled EXCEPT
                        !.back = Some(rescale(Unwrap(rescaled.out), rescaled.to,
                                              rescaled.from))]
    /\ UNCHANGED <<evars, panicked, edits, last, history, bridge>>

\* The value that came back is converted again.
RescaleAgain ==
    /\ IsSome(rescaled.back)
    /\ rescaled.trips < MaxTrips
    /\ rescaled' = RescaleCall(Unwrap(rescaled.back), rescaled.from, rescaled.to,
                               None, None, rescaled.trips + 1)
    /\ UNCHANGED <<evars, panicked, edits, last, history, bridge>>

NextRescale == Rescale \/ RescaleBack \/ RescaleAgain

(***************************************************************************)
(* The ways an engine Rational comes into being; the one made becomes the  *)
(* `from` or the `to` time base of the next rescale.                       *)
(***************************************************************************)
\* i32 components offered to the constructors.
RationalParts == {-90000, -1, 0, 1, 1001, 90000}

\* The time base made by `cmd` with result `r` takes the place of from or to.
Constructed(cmd, r, as_from) ==
    /\ last' = Reply(cmd, IF r.ok THEN "Ok" ELSE r.err, <<>>, <<>>)
    /\ rescaled' = IF ~r.ok THEN rescaled
                   ELSE IF as_from THEN [rescaled EXCEPT !.from = r.v]
                   ELSE [rescaled EXCEPT !.to = r.v]
    /\ UNCHANGED <<evars, panicked, edits, history, bridge>>

\* Rational::new
RationalNew(n, d, as_from) ==
    /\ ~panicked
    /\ Constructed("Rational::new", Rational_new(n, d), as_from)

\* Deserialize for Rational
RationalDeserialize(n, d, as_from) ==
    /\ ~panicked
    /\ Constructed("Rational::deserialize", Rational_deserialize(n, d), as_from)

\* FfmpegMediaBackend::probe: the stream's time base, parsed by
\* media_ffmpeg::Rational::new, is converted with `.into()`.
RationalFromProbe(n, d, as_from) ==
    /\ ~panicked
    /\ LET parsed == media_ffmpeg_Rational_new(n, d)
       IN Constructed("Rational::from",
                      IF parsed.ok THEN Ok(Rational_from(parsed.v)) ELSE parsed,
                      as_from)

NextRational ==
    \/ \E n \in RationalParts, d \in RationalParts, as_from \in BOOLEAN :
           RationalNew(n, d, as_from)
    \/ \E n \in RationalParts, d \in RationalParts, as_from \in BOOLEAN :
           RationalDeserialize(n, d, as_from)
    \/ \E n \in RationalParts, d \in RationalParts, as_from \in BOOLEAN :
           RationalFromProbe(n, d, as_from)

SpecRational == Init /\ [][NextRational]_vars

(***************************************************************************)
(* PreviewFrameCache on its own: a cache of CacheCapacity entries with     *)
(* buckets of two ticks under any sequence of get and insert calls.        *)
(***************************************************************************)
CachePaths == {"a.mp4", "b.mp4"}
\* Source times in three buckets, two of them in the same bucket.
CacheSources == {0, 1, 2, 4}

InitCache ==
    /\ project = None
    /\ playhead_tl = 0
    /\ next_asset_id = 1
    /\ next_segment_id = 1
    /\ preview_cache = PreviewFrameCache_new(CacheCapacity, 2)
    /\ last_preview = None
    /\ panicked = FALSE
    /\ edits = 0
    /\ last = Reply("new", "Ok", <<>>, <<>>)
    /\ history = History(0, 0, <<>>)
    /\ bridge = None
    /\ rescaled = RescaleCall(0, TIMELINE_TIME_BASE, TIMELINE_TIME_BASE, None, None, 0)

\* PreviewFrameCache::get; the history notes a hit as the key's last use.
CacheGet(path, source_tl) ==
    LET key == make_key(preview_cache, path, source_tl)
        hit == cache_contains(preview_cache, path, source_tl)
    IN /\ preview_cache' = cache_get(preview_cache, path, source_tl)
       /\ last' = Reply("get", IF hit THEN "Some" ELSE "None", <<>>, <<>>)
       /\ history' = IF hit
                     THEN [history EXCEPT !.recency = Append(SeqWithout(@, key), key)]
                     ELSE history
       /\ UNCHANGED <<project, playhead_tl, next_asset_id, next_segment_id,
                      last_preview, panicked, edits, rescaled, bridge>>

\* PreviewFrameCache::insert; the history notes it as the key's last use.
CacheInsert(path, source_tl) ==
    LET key == make_key(preview_cache, path, source_tl)
    IN /\ preview_cache' = cache_insert(preview_cache, path, source_tl)
       /\ last' = Reply("insert", "Ok", <<>>, <<>>)
       /\ history' = [history EXCEPT !.recency = Append(SeqWithout(@, key), key)]
       /\ UNCHANGED <<project, playhead_tl, next_asset_id, next_segment_id,
                      last_preview, panicked, edits, rescaled, bridge>>

NextCache ==
    \/ \E path \in CachePaths, source_tl \in CacheSources : CacheGet(path, source_tl)
    \/ \E path \in CachePaths, source_tl \in CacheSources : CacheInsert(path, source_tl)

SpecCache == InitCache /\ [][NextCache]_vars

SpecRescale == InitRescale /\ [][NextRescale]_vars


(***************************************************************************)
(* Properties                                                              *)
(***************************************************************************)
\* The timeline of an Option<Project> (empty when no project is loaded).
Segments(p) == IF IsSome(p) THEN Unwrap(p).segments ELSE <<>>

\* The step is command `cmd` returning Ok.
Succeeded(cmd) == last'.cmd = cmd /\ last'.result = "Ok"

\* The commands that edit the project.
EditCommands ==
    {"Import", "Split", "Cut", "MoveSegment", "TrimSegmentStart", "TrimSegmentEnd"}

\* The state is the one a successful edit left.  Every project the engine
\* reaches is first held in such a state; the states that follow with the same
\* project add nothing to a property of the project alone.
ProjectJustEdited ==
    IsSome(project) /\ last.cmd \in EditCommands /\ last.result = "Ok"

\* The 1-based index of the segment with this id.
IndexOfId(segments, id) == CHOOSE i \in DOMAIN segments : segments[i].id = id

HasGap(segments) ==
    \E i \in DOMAIN segments :
        i < Len(segments) /\ SegEnd(segments[i]) < segments[i + 1].timeline_start

\* `new` is `old` with the segment that strictly contains at_tl replaced by two
\* adjacent pieces meeting at at_tl.
SplitsInTwo(old, new, at_tl) ==
    \E i \in DOMAIN old :
        /\ old[i].timeline_start < at_tl /\ at_tl < SegEnd(old[i])
        /\ Len(new) = Len(old) + 1
        /\ new[i].timeline_start = old[i].timeline_start
        /\ new[i].timeline_start + new[i].timeline_duration = at_tl
        /\ new[i + 1].timeline_start = at_tl
        /\ new[i + 1].timeline_start + new[i + 1].timeline_duration = SegEnd(old[i])
        /\ new[i].timeline_duration >= 1
        /\ new[i + 1].timeline_duration >= 1
        /\ \A j \in DOMAIN old : /\ j < i => new[j] = old[j]
                                 /\ j > i => new[j + 1] = old[j]
        /\ duration_tl(new) = duration_tl(old)

\* C1: Split contiguity.  Whatever the project and the at_tl, a successful
\* Split(at_tl) replaces the segment that strictly contains at_tl by two
\* adjacent segments: the left one starts where the original started and ends
\* at at_tl, the right one starts at at_tl and ends where the original ended,
\* both last at least one tick, every other segment is unchanged and so is the
\* total duration; this holds for every split of a behaviour, repeated ones
\* included.
C1_SplitContiguity ==
    [][Succeeded("Split") =>
         \A at_tl \in Ticks :
             Split(at_tl) => SplitsInTwo(Segments(project), Segments(project'), at_tl)
      ]_vars

\* A second split has succeeded, on a timeline that has a gap.
C1_Witness ==
    /\ last.cmd = "Split" /\ last.result = "Ok"
    /\ Len(Segments(project)) = 3
    /\ HasGap(Segments(project))

\* `new` is `old` without its i-th segment, the later segments moved left by
\* the removed duration, the earlier ones untouched.
RemovesAndShifts(old, new, i) ==
    /\ Len(new) = Len(old) - 1
    /\ \A j \in DOMAIN old :
        /\ j < i => new[j] = old[j]
        /\ j > i => new[j - 1] = [old[j] EXCEPT !.timeline_start =
                                      old[j].timeline_start - old[i].timeline_duration]

C3_CutKeepsGaps ==
    [][Succeeded("Cut") =>
         \A at_tl \in Ticks :
             Cut(at_tl) =>
                 LET old == Segments(project)
                     new == Segments(project')
                 IN \A i \in DOMAIN old :
                        (/\ old[i].timeline_start <= at_tl /\ at_tl < SegEnd(old[i])
                         /\ 1 < i /\ i < Len(old))
                        => /\ new = RemoveAt(old, i)
                           /\ duration_tl(new) = duration_tl(old)
                           /\ \A j \in DOMAIN new :
                                  \/ SegEnd(new[j]) <= old[i].timeline_start
                                  \/ SegEnd(old[i]) <= new[j].timeline_start
      ]_vars

\* C4: Source range order.  In every state reached from an import by Split,
\* Cut, MoveSegment, TrimSegmentStart and TrimSegmentEnd commands, every
\* segment has src_in_video <= src_out_video and src_in_audio <= src_out_audio
\* for each stream it has.
C4_SourceRangeOrder ==
    \A i \in DOMAIN Segments(project) :
        LET segment == Segments(project)[i] IN
        /\ (IsSome(segment.src_in_video) /\ IsSome(segment.src_out_video))
              => Unwrap(segment.src_in_video) <= Unwrap(segment.src_out_video)
        /\ (IsSome(segment.src_in_audio) /\ IsSome(segment.src_out_audio))
              => Unwrap(segment.src_in_audio) <= Unwrap(segment.src_out_audio)

\* C5: Timeline ordering.  In every state reached from an import by edit
\* commands with arbitrary i64 arguments, the segments are sorted by
\* timeline_start, every timeline_start is >= 0, every timeline_duration is
\* >= 1, and each segment ends no later than the next one starts.
C5_TimelineOrdering ==
    LET segments == Segments(project) IN
    /\ \A i \in DOMAIN segments :
        /\ segments[i].timeline_start >= 0
        /\ segments[i].timeline_duration >= 1
    /\ \A i, j \in DOMAIN segments :
        i < j => segments[i].timeline_start <= segments[j].timeline_start
    /\ \A i \in DOMAIN segments :
        i < Len(segments) =>
            segments[i].timeline_start + segments[i].timeline_duration
                <= segments[i + 1].timeline_start

\* Two moves or trims have succeeded and left three segments, a gap among
\* them, the last one ending at i64::MAX.
C5_Witness ==
    /\ edits = 2
    /\ last.result = "Ok"
    /\ last.cmd \in {"MoveSegment", "TrimSegmentStart", "TrimSegmentEnd"}
    /\ Len(Segments(project)) = 3
    /\ HasGap(Segments(project))
    /\ duration_tl(Segments(project)) = I64_MAX

\* C6: Split boundary rejection.  With a project loaded, Split at an at_tl
\* equal to the start or the end of any segment returns SplitPointAtBoundary
\* and leaves the project as it was; Split at an at_tl that is in no segment
\* and on no boundary returns SegmentNotFound and leaves the project as it
\* was.
C6_SplitBoundaryRejection ==
    [][last'.cmd = "Split" =>
         \A at_tl \in Ticks :
             (Split(at_tl) /\ IsSome(project)) =>
                 LET segments == Segments(project)
                     on_boundary == \E i \in DOMAIN segments :
                         \/ at_tl = segments[i].timeline_start
                         \/ at_tl = segments[i].timeline_start
                                       + segments[i].timeline_duration
                     inside == \E i \in DOMAIN segments :
                         /\ segments[i].timeline_start <= at_tl
                         /\ at_tl < segments[i].timeline_start
                                       + segments[i].timeline_duration
                 IN /\ on_boundary =>
                        /\ last'.result = "SplitPointAtBoundary"
                        /\ project' = project
                    /\ (~on_boundary /\ ~inside) =>
                        /\ last'.result = "SegmentNotFound"
                        /\ project' = project
      ]_vars

\* A split has been rejected at a boundary of a timeline that has a gap.
C6_Witness ==
    /\ last.cmd = "Split" /\ last.result = "SplitPointAtBoundary"
    /\ HasGap(Segments(project))

\* The two pieces of one stream after a split of `segment` into left and right
\* at at_tl: both None when the asset lacks the stream, else both meeting at
\* the clamped split point.
SplitPoint(src_in, src_out, left_out, right_in, stream, local_tl) ==
    IF ~IsSome(stream)
    THEN src_in = None /\ src_out = None /\ left_out = None /\ right_in = None
    ELSE LET split == clamp(Unwrap(src_in)
                              + rescale(local_tl, Rational(1, 1000000),
                                        Unwrap(stream).time_base),
                            Unwrap(src_in), Unwrap(src_out))
         IN left_out = Some(split) /\ right_in = Some(split)

\* Split(333333) on the project imported from the sample asset (video 1/90000
\* from 90000, audio 1/48000 from 48000).
SampleSplit ==
    Project_split(from_single_asset(1, 1, sample_probed_media), 333333, 2)

MovedWithinNeighbours(old, new, id, new_start_tl) ==
    LET i == IndexOfId(old, id) IN
    /\ Len(new) = Len(old)
    /\ new[i].id = id
    /\ new[i].timeline_start >= 0
    /\ i > 1 => new[i - 1].timeline_start + new[i - 1].timeline_duration
                   <= new[i].timeline_start
    /\ i < Len(new) => new[i].timeline_start + new[i].timeline_duration
                         <= new[i + 1].timeline_start
    /\ new[i].timeline_start + new[i].timeline_duration <= I64_MAX
    /\ new[i].timeline_duration = old[i].timeline_duration
    /\ (i = Len(new) /\ new_start_tl = I64_MAX)
          => new[i].timeline_start = I64_MAX - new[i].timeline_duration

\* C8: Move clamp.  In every reachable project, for every segment id present
\* and every i64 new_start, move_segment succeeds and leaves the moved segment
\* starting at or after the end of the previous segment, ending at or before
\* the start of the next one, its end within i64, its start >= 0 and its
\* duration unchanged; the last segment moved to i64::MAX starts at
\* i64::MAX - duration.
C8_MoveClamp ==
    IsSome(project) =>
        \A id \in SegmentIds, new_start_tl \in Ticks :
            (\E i \in DOMAIN Segments(project) : Segments(project)[i].id = id) =>
                LET r == Project_move_segment(Unwrap(project), id, new_start_tl)
                IN /\ r.ok
                   /\ MovedWithinNeighbours(Segments(project), r.v.segments,
                                            id, new_start_tl)

\* A move has succeeded that put the last of two segments at i64::MAX -
\* duration, leaving a gap.
C8_Witness ==
    /\ last.cmd = "MoveSegment" /\ last.result = "Ok"
    /\ Len(Segments(project)) >= 2
    /\ HasGap(Segments(project))
    /\ duration_tl(Segments(project)) = I64_MAX

\* The segment at index i after a trim: at least one tick long and within its
\* neighbours.
TrimmedWithinNeighbours(new, i) ==
    /\ new[i].timeline_duration >= 1
    /\ new[i].timeline_start >=
           (IF i = 1 THEN 0
            ELSE new[i - 1].timeline_start + new[i - 1].timeline_duration)
    /\ new[i].timeline_start + new[i].timeline_duration <=
           (IF i = Len(new) THEN I64_MAX ELSE new[i + 1].timeline_start)

\* A source point after a shift by delta_tl: never negative, and 0 when the
\* shifted value would be negative.
ShiftedPoint(before, after, stream, delta_tl) ==
    (IsSome(before) /\ IsSome(stream)) =>
        /\ IsSome(after)
        /\ Unwrap(after) >= 0
        /\ (Unwrap(before) + rescale(delta_tl, Rational(1, 1000000),
                                     Unwrap(stream).time_base) < 0)
              => Unwrap(after) = 0

\* C9: Trim minimum duration.  In every project an edit leaves, for every segment
\* id present and every i64 target, trim_segment_start and trim_segment_end
\* succeed and leave the segment at least one tick long, starting at or after
\* the end of the previous segment (0 for the first) and ending at or before
\* the start of the next one; every source point the trim shifts is >= 0, and
\* is 0 when the shift would take it below 0.
C9_TrimMinimumDuration ==
    ProjectJustEdited =>
        \A id \in SegmentIds, target \in Ticks :
            (\E i \in DOMAIN Segments(project) : Segments(project)[i].id = id) =>
                LET old == Segments(project)
                    i == IndexOfId(old, id)
                    asset == asset_by_id(Unwrap(project), old[i].asset_id).v
                    s == Project_trim_segment_start(Unwrap(project), id, target)
                    e == Project_trim_segment_end(Unwrap(project), id, target)
                IN /\ s.ok
                   /\ TrimmedWithinNeighbours(s.v.segments, i)
                   /\ ShiftedPoint(old[i].src_in_video, s.v.segments[i].src_in_video,
                                   asset.video,
                                   s.v.segments[i].timeline_start - old[i].timeline_start)
                   /\ ShiftedPoint(old[i].src_in_audio, s.v.segments[i].src_in_audio,
                                   asset.audio,
                                   s.v.segments[i].timeline_start - old[i].timeline_start)
                   /\ e.ok
                   /\ TrimmedWithinNeighbours(e.v.segments, i)
                   /\ ShiftedPoint(old[i].src_out_video, e.v.segments[i].src_out_video,
                                   asset.video,
                                   SegEnd(e.v.segments[i]) - SegEnd(old[i]))
                   /\ ShiftedPoint(old[i].src_out_audio, e.v.segments[i].src_out_audio,
                                   asset.audio,
                                   SegEnd(e.v.segments[i]) - SegEnd(old[i]))

\* A trim of the end has succeeded that left a one-tick segment of the
\* audio-only asset with its src_out pinned to 0, below its src_in of 1.
C9_Witness ==
    /\ last.cmd = "TrimSegmentEnd" /\ last.result = "Ok"
    /\ \E i \in DOMAIN Segments(project) :
        LET segment == Segments(project)[i] IN
        /\ segment.timeline_duration = 1
        /\ segment.src_in_audio = Some(1)
        /\ segment.src_out_audio = Some(0)

\* C10: Failure atomicity.  Every command that returns an error leaves the
\* project, the playhead, the next asset id, the next segment id, the cache
\* and the last preview target as they were before the command.
C10_FailureAtomicity ==
    [][(last'.result # "Ok" /\ last'.result # "panic") => UNCHANGED evars]_vars

\* The ids of the segments of a timeline.
SegmentIdsOf(segments) == {segments[i].id : i \in DOMAIN segments}

\* C11: A failed split does not consume a segment id.  The right piece of the
\* k-th successful split after an import gets the import's segment id + k,
\* however many Split commands failed in between: every successful Split step
\* adds exactly one segment id, the import's id plus the number of splits that
\* have succeeded since the import (this one included), and next_segment_id
\* changes only in a step that is a successful Split or Import, where it grows
\* by one.
C11_FailedSplitKeepsId ==
    [][/\ Succeeded("Split") =>
            /\ SegmentIdsOf(Segments(project')) \ SegmentIdsOf(Segments(project))
                   = {history.import_segment_id + history'.splits}
            /\ history'.splits = history.splits + 1
            /\ \E i \in DOMAIN Segments(project') :
                   /\ i > 1
                   /\ Segments(project')[i].id
                          = history.import_segment_id + history'.splits
                   /\ Segments(project')[i - 1].id \in SegmentIdsOf(Segments(project))
                   /\ SegEnd(Segments(project')[i - 1])
                          = Segments(project')[i].timeline_start
       /\ Succeeded("Import") =>
            /\ Segments(project')[1].id = next_segment_id
            /\ history'.import_segment_id = next_segment_id
       /\ next_segment_id' # next_segment_id =>
            /\ Succeeded("Split") \/ Succeeded("Import")
            /\ next_segment_id' = next_segment_id + 1
       /\ (last'.cmd = "Split" /\ last'.result # "Ok") =>
            next_segment_id' = next_segment_id
      ]_vars

\* A Split has just failed after one that succeeded, and the id the next split
\* will hand out is still the import's id + 2.
C11_Witness ==
    /\ last.cmd = "Split"
    /\ last.result = "SplitPointAtBoundary"
    /\ history.splits = 1
    /\ next_segment_id = history.import_segment_id + 2
    /\ history.import_segment_id > 1

RECURSIVE Gcd(_, _)
Gcd(a, b) == IF b = 0 THEN a ELSE Gcd(b, a % b)

\* The exact quotient ts * from.num * to.den / (from.den * to.num), rounded to
\* the nearest integer with ties away from zero and clamped to the i64 range:
\* with the fraction mr / dr in lowest terms and ts = q * dr + r (0 <= r < dr),
\* the quotient is q * mr + r * mr / dr, whose integer part and remainder are
\* formed by floor division.  Beyond the first two tests the quotient is
\* outside the i64 range by more than mr.
NearestQuotient(ts, from, to) ==
    LET m == from.num * to.den
        d == from.den * to.num
        g == Gcd(m, d)
        mr == m \div g
        dr == d \div g
        q == ts \div dr
        r == ts % dr
    IN IF q > (I64_MAX \div mr) + 1 THEN I64_MAX
       ELSE IF q < -(I64_MAX \div mr) - 3 THEN I64_MIN
       ELSE LET frac == r * mr
                floor == q * mr + (frac \div dr)
                rem == frac % dr
                nearest == IF 2 * rem > dr THEN floor + 1
                           ELSE IF 2 * rem = dr /\ ts >= 0 THEN floor + 1
                           ELSE floor
            IN clamp(nearest, I64_MIN, I64_MAX)

\* C12: Rescale reference.  For every ts and every pair of rationals with
\* positive num and den, rescale(ts, from, to) is the exact quotient
\* ts*from.num*to.den / (from.den*to.num) rounded to the nearest integer, ties
\* away from zero, clamped to [i64::MIN, i64::MAX]; the divisor the code's
\* debug assertion wants positive is positive and the result is an i64;
\* rescale(ts, r, r) = ts, rescale(90000, 1/90000, 1/1000000) = 1000000 and
\* rescale(1001, 1/30000, 1/1000000) = 33367.
C12_RescaleReference ==
    IsSome(rescaled.out) =>
        LET out == Unwrap(rescaled.out) IN
        /\ rescaled.from.den * rescaled.to.num > 0
        /\ InI64(out)
        /\ out = NearestQuotient(rescaled.ts, rescaled.from, rescaled.to)
        /\ rescaled.from = rescaled.to => out = rescaled.ts
        /\ (/\ rescaled.ts = 90000
            /\ rescaled.from = Rational(1, 90000)
            /\ rescaled.to = Rational(1, 1000000)) => out = 1000000
        /\ (/\ rescaled.ts = 1001
            /\ rescaled.from = Rational(1, 30000)
            /\ rescaled.to = Rational(1, 1000000)) => out = 33367

\* The i64 maximum converted to a finer time base is clamped to the maximum.
C12_Witness ==
    /\ rescaled.ts = I64_MAX
    /\ rescaled.from = Rational(1, 30000)
    /\ rescaled.to = Rational(1, 1000000)
    /\ rescaled.out = Some(I64_MAX)

\* The time bases used in this system.
SystemBases == {Rational(1, 1000000), Rational(1, 90000), Rational(1, 48000)}

\* x is in range: its conversion from A to B is not clamped (the rounded
\* quotient lies within -i64::MAX..i64::MAX).
InRange(x, A, B) == AbsI(rescale_unclamped(x, A, B)) <= I64_MAX

\* A round trip of x through B has come back.
RoundTripDone ==
    /\ IsSome(rescaled.back)
    /\ rescaled.trips = 0
    /\ rescaled.from \in SystemBases
    /\ rescaled.to \in SystemBases
    /\ InRange(rescaled.ts, rescaled.from, rescaled.to)

\* C13 as stated: for A, B among 1/1000000, 1/90000, 1/48000, in either role,
\* and every x in range, rescale(rescale(x, A, B), B, A) differs from x by at
\* most one tick of A.
C13_RoundTrip ==
    RoundTripDone => AbsI(Unwrap(rescaled.back) - rescaled.ts) <= 1

\* The largest difference, in ticks of A, of a round trip from A through B.
RoundTripBound(A, B) ==
    IF A = Rational(1, 1000000) /\ B = Rational(1, 90000) THEN 6
    ELSE IF A = Rational(1, 1000000) /\ B = Rational(1, 48000) THEN 10
    ELSE 1

\* C13 (amended): the round trip differs from x by at most one tick of A,
\* except from A = 1/1000000 through the coarser B = 1/90000 or 1/48000, where
\* it differs by at most 6 and 10 ticks of A (half a tick of B).
C13_RoundTripAmended ==
    RoundTripDone =>
        AbsI(Unwrap(rescaled.back) - rescaled.ts)
            <= RoundTripBound(rescaled.from, rescaled.to)

\* 50 microseconds is 4.5 ticks of 1/90000: it comes back as 56.
C13_Witness ==
    /\ RoundTripDone
    /\ rescaled.from = Rational(1, 1000000)
    /\ rescaled.to = Rational(1, 90000)
    /\ AbsI(Unwrap(rescaled.back) - rescaled.ts) = 6

\* The pairs of C14: 1/90000 with 1/1000000, 1/48000 with 1/1000000.
DriftPair(A, B) ==
    \/ A = Rational(1, 1000000) /\ B \in {Rational(1, 90000), Rational(1, 48000)}
    \/ B = Rational(1, 1000000) /\ A \in {Rational(1, 90000), Rational(1, 48000)}

\* C14: No drift under repeated conversion.  For the pairs 1/90000 with
\* 1/1000000 and 1/48000 with 1/1000000, in either direction, the round trip
\* r(x) = rescale(rescale(x, A, B), B, A) is idempotent: a value that came
\* back from a round trip comes back from the next one unchanged.
C14_NoDrift ==
    (/\ rescaled.trips >= 1
     /\ IsSome(rescaled.back)
     /\ DriftPair(rescaled.from, rescaled.to)) =>
        Unwrap(rescaled.back) = rescaled.ts

\* 50 microseconds came back from 1/90000 as 56, and 56 comes back as 56.
C14_Witness ==
    /\ rescaled.trips = 1
    /\ rescaled.from = Rational(1, 1000000)
    /\ rescaled.to = Rational(1, 90000)
    /\ rescaled.ts = 56
    /\ rescaled.back = Some(56)

\* C15: Every engine Rational used as a time base has num > 0 and den > 0:
\* Rational::new and deserialization fail with InvalidRational when num <= 0
\* or den <= 0, and no construction path (the conversion from the media
\* backend's rational included) yields an engine Rational with a non-positive
\* component.
C15_PositiveRationals ==
    /\ rescaled.from.num > 0 /\ rescaled.from.den > 0
    /\ rescaled.to.num > 0 /\ rescaled.to.den > 0
    /\ \A n \in RationalParts, d \in RationalParts :
          (n <= 0 \/ d <= 0) =>
              /\ Rational_new(n, d) = Err("InvalidRational")
              /\ Rational_deserialize(n, d) = Err("InvalidRational")

\* The place of a key in the order of last uses (later is more recent).
LastUse(key) == CHOOSE i \in DOMAIN history.recency : history.recency[i] = key

\* The cached key whose last get-hit or insert is the oldest.
LeastRecentlyUsed ==
    CHOOSE key \in preview_cache.entries :
        \A other \in preview_cache.entries : LastUse(key) <= LastUse(other)

\* C16: Cache LRU.  For a cache of capacity N under any sequence of get and
\* insert calls: an insert that makes the entry count exceed N evicts exactly
\* one entry, the one whose last get-hit or insert is the oldest (a get that
\* hits counts as a use and so protects its entry), never the one just
\* inserted; any other insert only adds its key; a get changes no entry; the
\* cache never holds more than N entries.
C16_CacheLru ==
    [][\A path \in CachePaths, source_tl \in CacheSources :
         LET key == make_key(preview_cache, path, source_tl)
             entries == preview_cache.entries
         IN /\ CacheInsert(path, source_tl) =>
                 IF key \notin entries /\ Cardinality(entries) = preview_cache.capacity
                 THEN /\ preview_cache'.entries
                             = (entries \cup {key}) \ {LeastRecentlyUsed}
                      /\ LeastRecentlyUsed # key
                      /\ Cardinality(preview_cache'.entries) = preview_cache.capacity
                 ELSE preview_cache'.entries = entries \cup {key}
            /\ CacheGet(path, source_tl) =>
                 /\ preview_cache'.entries = entries
                 /\ key \in entries =>
                        history'.recency[Len(history'.recency)] = key
            /\ Cardinality(preview_cache'.entries) <= preview_cache.capacity
      ]_vars

\* As in the cache's test: buckets 0 and 1 inserted, bucket 0 used since,
\* bucket 2 inserted: bucket 1 has been evicted and bucket 0 kept.
C16_Witness ==
    /\ last.cmd = "insert"
    /\ history.recency = <<[path |-> "a.mp4", bucket |-> 1],
                           [path |-> "a.mp4", bucket |-> 0],
                           [path |-> "a.mp4", bucket |-> 2]>>
    /\ preview_cache.entries = {[path |-> "a.mp4", bucket |-> 0],
                                [path |-> "a.mp4", bucket |-> 2]}

\* The step is a SetPlayhead that did not panic, with a project loaded.
SetPlayheadStep ==
    /\ last'.cmd = "SetPlayhead"
    /\ last'.result # "panic"
    /\ IsSome(project)

\* The preview request of a SetPlayhead step: the engine's playhead after the
\* step is the clamped argument.
Requested == preview_request_at(Unwrap(project), playhead_tl')

\* The request's bucket is in the cache before the step.
Hit(request) ==
    [path |-> request.path,
     bucket |-> request.source_tl \div preview_cache.bucket_size_tl]
        \in preview_cache.entries

\* The scrub direction is known: the previous preview was of the same path at
\* a strictly smaller or greater source time.
KnownDirection(request) ==
    /\ IsSome(last_preview)
    /\ Unwrap(last_preview).path = request.path
    /\ Unwrap(last_preview).source_tl # request.source_tl

FirstDirectionalTarget(request) ==
    LET sign == IF request.source_tl > Unwrap(last_preview).source_tl THEN 1 ELSE -1
        target(k) == request.source_tl + sign * k * preview_cache.bucket_size_tl
        free == {k \in 1..PREFETCH_RADIUS_DIRECTIONAL :
                    /\ target(k) >= 0
                    /\ [path |-> request.path,
                        bucket |-> target(k) \div preview_cache.bucket_size_tl]
                           \notin preview_cache.entries}
    IN IF free = {} THEN None
       ELSE Some(target(CHOOSE k \in free : \A j \in free : k <= j))

\* C18 as stated: Directional prefetch.  When SetPlayhead hits the cache and
\* the scrub direction is known, the engine issues one additional decode in
\* that direction, at the first bucket offset in 1..18 whose bucket is not yet
\* cached, and then stops.
C18_DirectionalPrefetch ==
    [][(SetPlayheadStep /\ Requested.ok /\ Hit(Requested.v)
            /\ KnownDirection(Requested.v)
            /\ IsSome(FirstDirectionalTarget(Requested.v))) =>
           last'.decodes = <<Unwrap(FirstDirectionalTarget(Requested.v))>>
      ]_vars

\* C18 (amended): when SetPlayhead hits the cache and the scrub direction is
\* known, the engine returns the cached frame and issues no additional decode:
\* no bucket in that direction is decoded or cached, the entries of the cache
\* stay as they are and the request becomes the last preview target.
C18_NoDirectionalPrefetch ==
    [][(SetPlayheadStep /\ Requested.ok /\ Hit(Requested.v)
            /\ KnownDirection(Requested.v)) =>
           /\ last'.decodes = <<>>
           /\ preview_cache'.entries = preview_cache.entries
           /\ last'.result = "Ok"
           /\ last_preview' = Some(Requested.v)
      ]_vars

\* A cached frame has been returned while scrubbing backward or forward to
\* it, with an uncached bucket next to it in the direction of the scrub.
C18_Witness ==
    /\ last.cmd = "SetPlayhead"
    /\ last.result = "Ok"
    /\ last.decodes = <<>>
    /\ IsSome(last_preview)
    /\ Len(last.events) = 2
    /\ Cardinality(preview_cache.entries) = 2
    /\ preview_cache.lru_order[2].bucket
           = Unwrap(last_preview).source_tl \div preview_cache.bucket_size_tl
    /\ \E d \in {-1, 1} :
          /\ preview_cache.lru_order[1].bucket = preview_cache.lru_order[2].bucket - d
          /\ preview_cache.lru_order[2].bucket + d >= 0

\* C19: Decode count per SetPlayhead.  On a cache miss the backend decode is
\* invoked exactly once, for the requested source time, and no neighbour is
\* prefetched (the one frame added is the requested one); on a cache hit
\* reached by moving to a different source position on the same asset the
\* backend decode is not invoked at all.
C19_DecodeCount ==
    [][(SetPlayheadStep /\ Requested.ok) =>
           /\ ~Hit(Requested.v) =>
                 /\ last'.decodes = <<Requested.v.source_tl>>
                 /\ last'.result = "Ok" =>
                        preview_cache'.entries = preview_cache.entries \cup
                            {[path |-> Requested.v.path,
                              bucket |-> Requested.v.source_tl
                                             \div preview_cache.bucket_size_tl]}
                 /\ last'.result # "Ok" =>
                        preview_cache'.entries = preview_cache.entries
           /\ (Hit(Requested.v) /\ KnownDirection(Requested.v)) =>
                 Len(last'.decodes) = 0
      ]_vars

\* With a frame cached, a SetPlayhead in another bucket has missed and had
\* exactly its own frame decoded.
C19_Witness ==
    /\ last.cmd = "SetPlayhead"
    /\ last.result = "Ok"
    /\ Len(last.decodes) = 1
    /\ Cardinality(preview_cache.entries) = 2
    /\ Unwrap(last_preview).source_tl = last.decodes[1]

\* The idle prefetch targets of a request in the order they are tried: bucket
\* offsets +1, -1, +2, -2, ..., +120, -120 from the requested source time,
\* without the negative targets and those already cached.
IdleTargets(request) ==
    LET offset(rank) == IF rank % 2 = 1 THEN (rank + 1) \div 2 ELSE -(rank \div 2)
        target(rank) == request.source_tl + offset(rank) * preview_cache.bucket_size_tl
        remains(rank) ==
            /\ target(rank) >= 0
            /\ target(rank) <= I64_MAX
            /\ [path |-> request.path,
                bucket |-> target(rank) \div preview_cache.bucket_size_tl]
                   \notin preview_cache.entries
        ranks == SelectSeq([rank \in 1..(2 * PREFETCH_RADIUS_IDLE) |-> rank], remains)
    IN [i \in DOMAIN ranks |-> target(ranks[i])]

\* The step is a SetPlayhead that hits the cache with the direction unknown.
IdleHit ==
    /\ SetPlayheadStep
    /\ Requested.ok
    /\ Hit(Requested.v)
    /\ ~KnownDirection(Requested.v)

\* C20 as stated: Idle prefetch.  When SetPlayhead hits the cache and the
\* direction is unknown, the engine tries the offsets +1, -1, ..., +120, -120
\* in that order, skips targets that are negative or already cached, decodes
\* and inserts the first remaining target and then stops, so at most one frame
\* is added per request; a failed prefetch decode is swallowed and the command
\* still returns Ok.
C20_IdlePrefetch ==
    [][IdleHit =>
           \A request \in {Requested.v} : \A targets \in {IdleTargets(request)} :
           /\ last'.result = "Ok"
           /\ last'.decodes = IF targets = <<>> THEN <<>> ELSE <<targets[1]>>
           /\ preview_cache'.entries \subseteq preview_cache.entries \cup
                  {[path |-> request.path,
                    bucket |-> targets[i] \div preview_cache.bucket_size_tl] :
                       i \in DOMAIN targets \cap {1}}
      ]_vars

\* C20 (amended): the engine sends the remaining targets to the backend in
\* that order until one decode succeeds, inserts that frame and then stops:
\* the decodes of the request are the first n remaining targets, only the last
\* of them can have been inserted, so at most one frame is added, and the
\* command returns Ok whatever the prefetch decodes did.
C20_IdlePrefetchUntilSuccess ==
    [][IdleHit =>
           \A request \in {Requested.v} : \A targets \in {IdleTargets(request)} :
           LET n == Len(last'.decodes)
               key(i) == [path |-> request.path,
                          bucket |-> targets[i] \div preview_cache.bucket_size_tl]
           IN /\ last'.result = "Ok"
              /\ last'.events = <<PlayheadChanged(playhead_tl'),
                                  PreviewFrameReady(playhead_tl')>>
              /\ n <= Len(targets)
              /\ last'.decodes = SubSeq(targets, 1, n)
              /\ \/ /\ n > 0
                    /\ preview_cache'.entries = preview_cache.entries \cup {key(n)}
                 \/ /\ n = Len(targets)
                    /\ preview_cache'.entries = preview_cache.entries
      ]_vars

\* An idle prefetch whose first decode failed: the target at +1 was cached,
\* the one at -1 failed and the one at +2 was decoded and inserted.
C20_Witness ==
    /\ last.cmd = "SetPlayhead"
    /\ last.result = "Ok"
    /\ Len(last.decodes) = 2
    /\ last.decodes[1] = Unwrap(last_preview).source_tl - preview_cache.bucket_size_tl
    /\ last.decodes[2] = Unwrap(last_preview).source_tl + 2 * preview_cache.bucket_size_tl
    /\ Cardinality(preview_cache.entries) = 3

(***************************************************************************)
(* build_video_export_plan on its own: the plan of every project of a      *)
(* bounded family with several assets.                                     *)
(***************************************************************************)
\* The longest timeline of the family.
MaxPlanSegments == 3

\* Assets 1, 2 and 3 have both streams and differ in their audio settings,
\* assets 1 and 3 share a path; asset 4 has no audio stream, asset 5 no video
\* stream; no asset has id 6.
PlanAssets ==
    <<MediaAsset(1, "a.mp4",
          Some([time_base |-> Rational(1, 500000), frame_rate |-> None]),
          Some([time_base |-> Rational(1, 2000000), sample_rate |-> 48000,
                channels |-> 2]), 4),
      MediaAsset(2, "b.mp4",
          Some([time_base |-> Rational(1, 500000), frame_rate |-> None]),
          Some([time_base |-> Rational(1, 1000000), sample_rate |-> 44100,
                channels |-> 1]), 4),
      MediaAsset(3, "a.mp4",
          Some([time_base |-> Rational(1, 500000), frame_rate |-> None]),
          Some([time_base |-> Rational(1, 2000000), sample_rate |-> 22050,
                channels |-> 1]), 4),
      MediaAsset(4, "c.mp4",
          Some([time_base |-> Rational(1, 1000000), frame_rate |-> None]),
          None, 4),
      MediaAsset(5, "d.mp4", None,
          Some([time_base |-> Rational(1, 2000000), sample_rate |-> 48000,
                channels |-> 2]), 4)>>

\* What a timeline segment of the family may hold: its asset id and its
\* video and audio ranges (whole, zero-length, inverted, missing, or
\* zero-length at i64::MAX).
PlanShape(asset_id, video, audio) == [asset_id |-> asset_id, video |-> video, audio |-> audio]
PlanShapes ==
    {PlanShape(1, v, a) : v \in {<<0, 2>>, <<1, 1>>},
                          a \in {<<0, 8>>, <<4, 4>>, <<I64_MAX, I64_MAX>>, <<>>}}
    \cup {PlanShape(1, <<2, 1>>, <<0, 8>>), PlanShape(1, <<>>, <<0, 8>>),
          PlanShape(1, <<0, 2>>, <<8, 4>>)}
    \cup {PlanShape(2, <<0, 2>>, <<0, 4>>), PlanShape(2, <<0, 2>>, <<2, 2>>),
          PlanShape(2, <<1, 1>>, <<0, 4>>)}
    \cup {PlanShape(3, <<0, 2>>, <<0, 8>>)}
    \cup {PlanShape(4, <<0, 4>>, <<>>), PlanShape(4, <<2, 2>>, <<>>)}
    \cup {PlanShape(5, <<>>, <<0, 8>>), PlanShape(6, <<0, 2>>, <<0, 8>>)}

\* The segment at position i of a timeline, one tick long, of a given shape.
PlanSegment(i, shape) ==
    Segment(i, shape.asset_id,
            IF shape.video = <<>> THEN None ELSE Some(shape.video[1]),
            IF shape.video = <<>> THEN None ELSE Some(shape.video[2]),
            IF shape.audio = <<>> THEN None ELSE Some(shape.audio[1]),
            IF shape.audio = <<>> THEN None ELSE Some(shape.audio[2]),
            i - 1, 1)

PlanProjects ==
    UNION {{Project(PlanAssets, [i \in 1..n |-> PlanSegment(i, shapes[i])]) :
                shapes \in [1..n -> PlanShapes]} : n \in 0..MaxPlanSegments}

\* An engine holding one project of the family.
InitPlan ==
    /\ project \in {Some(p) : p \in PlanProjects}
    /\ playhead_tl = 0
    /\ next_asset_id = Len(PlanAssets) + 1
    /\ next_segment_id = MaxPlanSegments + 1
    /\ preview_cache = PreviewFrameCache_new(PREVIEW_CACHE_CAPACITY,
                                             DEFAULT_PREVIEW_CACHE_BUCKET_TL)
    /\ last_preview = None
    /\ panicked = FALSE
    /\ edits = 0
    /\ last = Reply("new", "Ok", <<>>, <<>>)
    /\ history = History(0, 0, <<>>)
    /\ bridge = None
    /\ rescaled = RescaleCall(0, TIMELINE_TIME_BASE, TIMELINE_TIME_BASE, None, None, 0)

\* A call of build_video_export_plan on the project, its result recorded.
BuildPlan ==
    /\ IsSome(project)
    /\ LET plan == build_video_export_plan(Unwrap(project))
       IN last' = [cmd |-> "build_video_export_plan",
                   result |-> IF plan.ok THEN "Ok" ELSE plan.err,
                   events |-> <<>>, decodes |-> <<>>,
                   plan |-> IF plan.ok THEN plan.v ELSE None]
    /\ UNCHANGED <<evars, panicked, edits, history, rescaled, bridge>>

NextPlan ==
    \/ BuildPlan
    \/ Export

\* The plan builder, called directly and through Engine::export.
SpecPlan == InitPlan /\ [][NextPlan]_vars

(***************************************************************************)
(* Sub-frame splits of the sample asset of the api.rs tests, and exports.  *)
(***************************************************************************)
\* The split points of the api.rs export tests: 8 and 1199990 fall within
\* one audio tick of the start and of the end, 333333 does not.
SubframeTicks == {8, 333333, 1199990}

NextSubframe ==
    \/ Import(sample_probed_media)
    \/ \E t \in SubframeTicks : Split(t)
    \/ \E t \in SubframeTicks : Cut(t)
    \/ Export
    \/ CancelExport

\* The engine under imports of the sample asset, sub-frame splits and cuts,
\* and exports.
SpecSubframe == Init /\ [][NextSubframe]_vars

(***************************************************************************)
(* ui bridge.rs: spawn_engine_bridge, the UI thread sending commands and    *)
(* receiving events, the worker thread calling the engine.                 *)
(***************************************************************************)
COMMAND_CHANNEL_CAPACITY == 32
EVENT_CHANNEL_CAPACITY == 8

\* The commands the UI sends before it stops.
MaxSent == 3

\* The commands the UI may send.
BridgeCommands ==
    {Command("Import", <<ProbeAV.path>>),
     Command("SetPlayhead", <<1>>),
     Command("SetPlayhead", <<2>>),
     Command("Split", <<0>>),
     Command("Split", <<2>>),
     Command("Cut", <<1>>),
     Command("MoveSegment", <<1, 1>>),
     Command("TrimSegmentStart", <<1, 1>>),
     Command("TrimSegmentEnd", <<1, 1>>),
     Command("Export", <<>>),
     Command("CancelExport", <<>>)}

\* spawn_engine_bridge: both channels empty, the worker waiting in recv; the
\* UI holds the command sender and the event receiver.
Bridge_new ==
    [commands |-> <<>>, pending |-> <<>>, channel |-> <<>>,
     worker |-> TRUE, sender |-> TRUE, receiver |-> TRUE,
     sent |-> <<>>, handled |-> <<>>, received |-> <<>>]

\* Engine::new moved into spawn_engine_bridge
InitBridge ==
    /\ project = None
    /\ playhead_tl = 0
    /\ next_asset_id = 1
    /\ next_segment_id = 1
    /\ preview_cache = PreviewFrameCache_new(PREVIEW_CACHE_CAPACITY,
                                             DEFAULT_PREVIEW_CACHE_BUCKET_TL)
    /\ last_preview = None
    /\ panicked = FALSE
    /\ edits = 0
    /\ last = Reply("new", "Ok", <<>>, <<>>)
    /\ history = History(0, 0, <<>>)
    /\ rescaled = RescaleCall(0, TIMELINE_TIME_BASE, TIMELINE_TIME_BASE, None, None, 0)
    /\ bridge = Some(Bridge_new)

\* A step of the bridge alone: the engine is not called.
BridgeStep(b) ==
    /\ bridge' = Some(b)
    /\ UNCHANGED <<evars, panicked, edits, last, history, rescaled>>

\* command_tx.send(command) by the UI: it waits while the channel is full and
\* fails once the worker is gone.
UiSend(command) ==
    /\ IsSome(bridge)
    /\ Unwrap(bridge).sender /\ Unwrap(bridge).worker
    /\ Len(Unwrap(bridge).sent) < MaxSent
    /\ Len(Unwrap(bridge).commands) < COMMAND_CHANNEL_CAPACITY
    /\ BridgeStep([Unwrap(bridge) EXCEPT !.commands = Append(@, command),
                                         !.sent = Append(@, command)])

\* event_tx.send sending the events as the loop's iterator yields them, the
\* last first.
WorkerSend_last_first ==
    /\ IsSome(bridge)
    /\ Unwrap(bridge).worker
    /\ Unwrap(bridge).pending # <<>>
    /\ LET b == Unwrap(bridge)
           n == Len(b.pending)
       IN IF ~b.receiver
          THEN BridgeStep([b EXCEPT !.pending = <<>>, !.worker = FALSE])
          ELSE /\ Len(b.channel) < EVENT_CHANNEL_CAPACITY
               /\ BridgeStep([b EXCEPT !.channel = Append(@, b.pending[n]),
                                       !.pending = SubSeq(@, 1, n - 1)])

\* event_tx.send(event) in the worker's loops: the next event of the command
\* just handled goes into the event channel, the worker waiting while it is
\* full; when the receiver is gone the send fails and the worker returns.
WorkerSend ==
    /\ IsSome(bridge)
    /\ Unwrap(bridge).worker
    /\ Unwrap(bridge).pending # <<>>
    /\ LET b == Unwrap(bridge)
       IN IF ~b.receiver
          THEN BridgeStep([b EXCEPT !.pending = <<>>, !.worker = FALSE])
          ELSE /\ Len(b.channel) < EVENT_CHANNEL_CAPACITY
               /\ BridgeStep([b EXCEPT !.channel = Append(@, Head(b.pending)),
                                       !.pending = Tail(@)])

\* command_rx.recv() returning Err: the sender is gone and no command is
\* left, the worker's loop ends.
WorkerExit ==
    /\ IsSome(bridge)
    /\ Unwrap(bridge).worker /\ ~Unwrap(bridge).sender
    /\ Unwrap(bridge).commands = <<>> /\ Unwrap(bridge).pending = <<>>
    /\ BridgeStep([Unwrap(bridge) EXCEPT !.worker = FALSE])

\* event_rx.recv() by the UI
UiRecv ==
    /\ IsSome(bridge)
    /\ Unwrap(bridge).receiver
    /\ Unwrap(bridge).channel # <<>>
    /\ BridgeStep([Unwrap(bridge) EXCEPT !.received = Append(@, Head(Unwrap(bridge).channel)),
                                         !.channel = Tail(@)])

\* The UI drops the command sender.
UiDropSender ==
    /\ IsSome(bridge)
    /\ Unwrap(bridge).sender
    /\ BridgeStep([Unwrap(bridge) EXCEPT !.sender = FALSE])

\* The UI drops the event receiver, and with it the events not yet received.
UiDropReceiver ==
    /\ IsSome(bridge)
    /\ Unwrap(bridge).receiver
    /\ BridgeStep([Unwrap(bridge) EXCEPT !.receiver = FALSE, !.channel = <<>>])

NextBridge ==
    \/ \E command \in BridgeCommands : UiSend(command)
    \/ NextEdit(MaxEdits)
    \/ \E t \in PlayTicks : SetPlayhead(t, MaxCached)
    \/ WorkerSend
    \/ WorkerExit
    \/ UiRecv
    \/ UiDropSender
    \/ UiDropReceiver

\* The engine behind the bridge: the UI thread and the worker thread.
SpecBridge == InitBridge /\ [][NextBridge]_vars

(***************************************************************************)
(* PreviewFrameCache under all four of its calls, with timestamps on both  *)
(* sides of zero.                                                          *)
(***************************************************************************)
\* Source timestamps: negative ones, zero, and some in the buckets 0, 1, 2.
CacheOpsSources == {I64_MIN, -3, -1, 0, 1, 2, 3, 4}

\* PreviewFrameCache::contains
CacheContains(path, source_tl) ==
    /\ last' = Reply("contains",
                     IF cache_contains(preview_cache, path, source_tl)
                     THEN "true" ELSE "false", <<>>, <<>>)
    /\ UNCHANGED <<evars, panicked, edits, history, rescaled, bridge>>

\* PreviewFrameCache::clear
CacheClear ==
    /\ preview_cache' = cache_clear(preview_cache)
    /\ last' = Reply("clear", "Ok", <<>>, <<>>)
    /\ history' = [history EXCEPT !.recency = <<>>]
    /\ UNCHANGED <<project, playhead_tl, next_asset_id, next_segment_id,
                   last_preview, panicked, edits, rescaled, bridge>>

NextCacheOps ==
    \/ \E path \in CachePaths, source_tl \in CacheOpsSources : CacheGet(path, source_tl)
    \/ \E path \in CachePaths, source_tl \in CacheOpsSources : CacheInsert(path, source_tl)
    \/ \E path \in CachePaths, source_tl \in CacheOpsSources : CacheContains(path, source_tl)
    \/ CacheClear

\* The cache under insert, get, contains and clear.
SpecCacheOps == InitCache /\ [][NextCacheOps]_vars

(***************************************************************************)
(* ui/src/app.rs: AppState, the iced update loop.  The UI holds the command *)
(* sender of the bridge and receives the worker's events one message at a   *)
(* time, in the order sent.  The fields that only feed the view (status,    *)
(* the path inputs, the loaded preview ranges, the canvas cache) are left   *)
(* out; frames are valid RGBA frames, a preview image is named by the t_tl  *)
(* of the event that brought it.  `ui` is the bridge with the AppState in   *)
(* its field `app`.  Playback (PlayPausePressed, PlaybackTick) is left out,  *)
(* so is_playing stays false, and so is the Disconnected message, which the *)
(* bridge sends only after the worker thread has ended.                     *)
(***************************************************************************)
IDLE_WARM_MAX_ROUNDS == 120

\* The commands the UI sends before it stops.
MaxAppSent == 4

\* AppState::boot
AppState_boot ==
    [engine_tx |-> FALSE, project |-> None, preview_image |-> None,
     playhead_tl |-> 0, pending_playhead_tl |-> None,
     latest_requested_playhead_tl |-> None,
     playhead_request_in_flight |-> FALSE,
     idle_warm_target_tl |-> None, idle_warm_rounds |-> 0,
     pending_split_tl |-> None, pending_cut_tl |-> None, last_split_tl |-> None,
     is_playing |-> FALSE]

\* SyncSender::try_send on the command channel
try_send(ui) ==
    IF ~ui.worker THEN "Disconnected"
    ELSE IF Len(ui.commands) >= COMMAND_CHANNEL_CAPACITY THEN "Full"
    ELSE "Ok"

\* The command channel after a successful try_send.
Sent(ui, command) ==
    [ui EXCEPT !.commands = Append(@, command), !.sent = Append(@, command)]

\* AppState::send_command: <<the UI after the call, whether it sent>>
send_command(ui, command) ==
    IF ~ui.app.engine_tx THEN <<ui, FALSE>>
    ELSE IF try_send(ui) = "Ok" THEN <<Sent(ui, command), TRUE>>
    ELSE IF try_send(ui) = "Full" THEN <<ui, FALSE>>
    ELSE <<[ui EXCEPT !.app.engine_tx = FALSE,
                      !.app.playhead_request_in_flight = FALSE], FALSE>>

\* AppState::flush_playhead_request
flush_playhead_request(ui) ==
    IF ui.app.playhead_request_in_flight THEN ui
    ELSE IF ~IsSome(ui.app.pending_playhead_tl) THEN ui
    ELSE LET t_tl == Unwrap(ui.app.pending_playhead_tl)
             taken == [ui EXCEPT !.app.pending_playhead_tl = None]
         IN IF ~ui.app.engine_tx THEN ui
            ELSE IF try_send(ui) = "Ok"
            THEN [Sent(taken, Command("SetPlayhead", <<t_tl>>))
                     EXCEPT !.app.playhead_request_in_flight = TRUE]
            ELSE IF try_send(ui) = "Full" THEN ui
            ELSE [taken EXCEPT !.app.engine_tx = FALSE,
                               !.app.playhead_request_in_flight = FALSE]

\* AppState::queue_playhead
queue_playhead(ui, t_tl, update_latest) ==
    flush_playhead_request(
        [ui EXCEPT !.app.pending_playhead_tl = Some(t_tl),
                   !.app.latest_requested_playhead_tl =
                        IF update_latest THEN Some(t_tl) ELSE @])

\* AppState::queue_playhead_from_user
queue_playhead_from_user(ui, t_tl) ==
    queue_playhead([ui EXCEPT !.app.idle_warm_target_tl = None,
                              !.app.idle_warm_rounds = 0], t_tl, TRUE)

\* AppState::clamp_playhead
clamp_playhead(app, t_tl) ==
    IF IsSome(app.project)
    THEN LET duration == Unwrap(app.project).duration_tl
             max_tick == IF duration <= 0 THEN 0 ELSE duration - 1
         IN clamp(t_tl, 0, max_tick)
    ELSE Max2(0, t_tl)

\* AppState::request_split
request_split(ui, at_tl) ==
    IF IsSome(ui.app.pending_split_tl) THEN ui
    ELSE IF IsSome(ui.app.pending_cut_tl) THEN ui
    ELSE LET sent == send_command(ui, Command("Split", <<at_tl>>))
         IN IF sent[2] THEN [sent[1] EXCEPT !.app.pending_split_tl = Some(at_tl)]
            ELSE sent[1]

\* AppState::request_cut
request_cut(ui, at_tl) ==
    IF IsSome(ui.app.pending_cut_tl) THEN ui
    ELSE IF IsSome(ui.app.pending_split_tl) THEN ui
    ELSE LET sent == send_command(ui, Command("Cut", <<at_tl>>))
         IN IF sent[2] THEN [sent[1] EXCEPT !.app.pending_cut_tl = Some(at_tl)]
            ELSE sent[1]

\* AppState::is_stale_playhead_event
is_stale_playhead_event(app, event_t_tl) ==
    /\ IsSome(app.latest_requested_playhead_tl)
    /\ Unwrap(app.latest_requested_playhead_tl) # event_t_tl


\* should_queue_idle_warm without the bound on the rounds.
should_queue_idle_warm_unbounded(app, t_tl) ==
    /\ ~app.is_playing
    /\ IsSome(app.project)
    /\ app.latest_requested_playhead_tl = Some(t_tl)
    /\ ~IsSome(app.pending_playhead_tl)
    /\ ~app.playhead_request_in_flight
    /\ (IsSome(app.idle_warm_target_tl) => Unwrap(app.idle_warm_target_tl) = t_tl)

\* AppState::should_queue_idle_warm
should_queue_idle_warm(app, t_tl) ==
    /\ ~app.is_playing
    /\ IsSome(app.project)
    /\ app.latest_requested_playhead_tl = Some(t_tl)
    /\ ~IsSome(app.pending_playhead_tl)
    /\ ~app.playhead_request_in_flight
    /\ (IsSome(app.idle_warm_target_tl) => Unwrap(app.idle_warm_target_tl) = t_tl)
    /\ app.idle_warm_rounds < IDLE_WARM_MAX_ROUNDS

\* AppState::apply_engine_event
apply_engine_event(ui, event) ==
    IF event.type = "ProjectChanged"
    THEN LET loaded == [ui.app EXCEPT !.project = Some([duration_tl |-> event.duration_tl])]
         IN [ui EXCEPT !.app =
                [loaded EXCEPT
                    !.is_playing = FALSE,
                    !.playhead_tl = clamp_playhead(loaded, @),
                    !.preview_image = None,
                    !.pending_playhead_tl = None,
                    !.latest_requested_playhead_tl = None,
                    !.playhead_request_in_flight = FALSE,
                    !.idle_warm_target_tl = None,
                    !.idle_warm_rounds = 0,
                    !.last_split_tl = ui.app.pending_split_tl,
                    !.pending_split_tl = None,
                    !.pending_cut_tl = None]]
    ELSE IF event.type = "PlayheadChanged"
    THEN flush_playhead_request(
            [ui EXCEPT !.app.playhead_tl =
                            IF is_stale_playhead_event(ui.app, event.t_tl) THEN @
                            ELSE clamp_playhead(ui.app, event.t_tl),
                       !.app.playhead_request_in_flight = FALSE])
    ELSE IF event.type = "PreviewFrameReady"
    THEN LET stale == is_stale_playhead_event(ui.app, event.t_tl)
             flushed == flush_playhead_request(
                [ui EXCEPT !.app.playhead_tl =
                                IF stale THEN @ ELSE clamp_playhead(ui.app, event.t_tl),
                           !.app.preview_image = IF stale THEN @ ELSE Some(event.t_tl),
                           !.app.playhead_request_in_flight = FALSE])
         IN IF /\ IsSome(flushed.app.preview_image)
               /\ should_queue_idle_warm(flushed.app, event.t_tl)
            THEN queue_playhead(
                    [flushed EXCEPT
                        !.app.idle_warm_target_tl = Some(event.t_tl),
                        !.app.idle_warm_rounds =
                            (IF flushed.app.idle_warm_target_tl = Some(event.t_tl)
                             THEN @ ELSE 0) + 1],
                    event.t_tl, FALSE)
            ELSE flushed
    ELSE IF event.type = "Error"
    THEN flush_playhead_request(
            [ui EXCEPT !.app.last_split_tl =
                            IF IsSome(ui.app.pending_split_tl) THEN None ELSE @,
                       !.app.pending_cut_tl =
                            IF IsSome(ui.app.pending_split_tl) THEN @ ELSE None,
                       !.app.pending_split_tl = None,
                       !.app.playhead_request_in_flight = FALSE])
    ELSE ui

\* bridge_worker_stream_with and AppState::boot: the bridge is spawned, its
\* Ready message is still to come.
InitApp ==
    /\ project = None
    /\ playhead_tl = 0
    /\ next_asset_id = 1
    /\ next_segment_id = 1
    /\ preview_cache = PreviewFrameCache_new(PREVIEW_CACHE_CAPACITY,
                                             DEFAULT_PREVIEW_CACHE_BUCKET_TL)
    /\ last_preview = None
    /\ panicked = FALSE
    /\ edits = 0
    /\ last = Reply("new", "Ok", <<>>, <<>>)
    /\ history = History(0, 0, <<>>)
    /\ rescaled = RescaleCall(0, TIMELINE_TIME_BASE, TIMELINE_TIME_BASE, None, None, 0)
    /\ bridge = Some([commands |-> <<>>, pending |-> <<>>, channel |-> <<>>,
                      worker |-> TRUE, sender |-> TRUE, receiver |-> TRUE,
                      sent |-> <<>>, handled |-> <<>>, received |-> <<>>,
                      ready |-> FALSE,
                      app |-> AppState_boot])

\* A message handled by AppState::update leaves the UI as `ui`; the UI stops
\* sending once it has sent `budget` commands.
Updated(ui, budget) ==
    /\ Len(ui.sent) > Len(Unwrap(bridge).sent) => Len(Unwrap(bridge).sent) < budget
    /\ BridgeStep(ui)

\* Message::Bridge(BridgeEvent::Ready(sender))
BridgeReady(budget) ==
    /\ IsSome(bridge)
    /\ ~Unwrap(bridge).ready
    /\ Updated(flush_playhead_request(
                  [Unwrap(bridge) EXCEPT !.ready = TRUE, !.app.engine_tx = TRUE]),
               budget)

\* Message::ImportPressed with a non-empty import path
ImportPressed(path, budget) ==
    /\ IsSome(bridge)
    /\ LET sent == send_command(Unwrap(bridge), Command("Import", <<path>>))
       IN Updated(IF sent[2]
                  THEN [sent[1] EXCEPT !.app.pending_split_tl = None,
                                       !.app.pending_cut_tl = None,
                                       !.app.last_split_tl = None]
                  ELSE sent[1], budget)

\* Message::ExportPressed with a non-empty export path
ExportPressed(budget) ==
    /\ IsSome(bridge)
    /\ Updated(send_command(Unwrap(bridge), Command("Export", <<>>))[1], budget)

\* Message::TimelineScrubbed
TimelineScrubbed(t_tl, budget) ==
    /\ IsSome(bridge)
    /\ LET ui == Unwrap(bridge)
           clamped == clamp_playhead(ui.app, t_tl)
       IN Updated(queue_playhead_from_user([ui EXCEPT !.app.playhead_tl = clamped],
                                           clamped), budget)

\* Message::TimelineSplitRequested
TimelineSplitRequested(at_tl, budget) ==
    /\ IsSome(bridge)
    /\ LET ui == Unwrap(bridge)
           clamped == clamp_playhead(ui.app, at_tl)
       IN Updated(queue_playhead_from_user(
                     request_split([ui EXCEPT !.app.playhead_tl = clamped], clamped),
                     clamped), budget)

\* Message::TimelineCutRequested
TimelineCutRequested(at_tl, budget) ==
    /\ IsSome(bridge)
    /\ LET ui == Unwrap(bridge)
           clamped == clamp_playhead(ui.app, at_tl)
       IN Updated(queue_playhead_from_user(
                     request_cut([ui EXCEPT !.app.playhead_tl = clamped], clamped),
                     clamped), budget)

\* Message::TimelineSegmentMoveRequested / TrimStartRequested /
\* TrimEndRequested: request_move_segment, request_trim_segment_start and
\* request_trim_segment_end send the command named `cmd`.
TimelineSegmentRequested(cmd, segment_id, t_tl, budget) ==
    /\ IsSome(bridge)
    /\ Updated(send_command(Unwrap(bridge), Command(cmd, <<segment_id, t_tl>>))[1],
               budget)

\* Message::Bridge(BridgeEvent::Event(event)): the oldest event of the event
\* channel reaches the update loop.
BridgeEventReceived(budget) ==
    /\ IsSome(bridge)
    /\ Unwrap(bridge).channel # <<>>
    /\ LET ui == Unwrap(bridge)
           event == Head(ui.channel)
       IN Updated(apply_engine_event(
                     [ui EXCEPT !.channel = Tail(@), !.received = Append(@, event)],
                     event), budget)

\* The positions the user scrubs to, splits at and cuts at, the paths typed,
\* and the segment edits dragged.
AppScrubs == {1, 2}
AppSplits == {1}
AppCuts == {1}
AppPaths == {ProbeAV.path}
AppSegmentEdits ==
    {<<"MoveSegment", 1, 1>>, <<"TrimSegmentStart", 1, 1>>, <<"TrimSegmentEnd", 1, 2>>}

\* The user's messages.
NextUser(budget) ==
    \/ \E path \in AppPaths : ImportPressed(path, budget)
    \/ ExportPressed(budget)
    \/ \E t \in AppScrubs : TimelineScrubbed(t, budget)
    \/ \E t \in AppSplits : TimelineSplitRequested(t, budget)
    \/ \E t \in AppCuts : TimelineCutRequested(t, budget)
    \/ \E edit \in AppSegmentEdits :
          TimelineSegmentRequested(edit[1], edit[2], edit[3], budget)

\* The worker thread: the commands the UI sends, and the sending of events.
NextWorker ==
    \/ \E probed \in Probes : Import(probed)
    \/ \E t \in Ticks : SetPlayhead(t, MaxCached)
    \/ \E t \in Ticks : Split(t)
    \/ \E t \in Ticks : Cut(t)
    \/ \E id \in SegmentIds, t \in Ticks : MoveSegment(id, t, MaxEdits)
    \/ \E id \in SegmentIds, t \in Ticks : TrimSegmentStart(id, t, MaxEdits)
    \/ \E id \in SegmentIds, t \in Ticks : TrimSegmentEnd(id, t, MaxEdits)
    \/ Export
    \/ WorkerSend

NextApp ==
    \/ BridgeReady(MaxAppSent)
    \/ NextUser(MaxAppSent)
    \/ BridgeEventReceived(MaxAppSent)
    \/ NextWorker

\* The UI, the bridge and the engine.
SpecApp == InitApp /\ [][NextApp]_vars


(***************************************************************************)
(* The idle-warm loop: a project is imported, the user scrubs to a         *)
(* position and leaves the timeline alone, or scrubs once more to another  *)
(* position early in the loop or after it has ended.                       *)
(***************************************************************************)
\* The commands the UI may send in the idle-warm scenario.
MaxIdleWarmSent == 400

\* The rounds at which the user scrubs a second time.
IdleWarmScrubRounds == {2, IDLE_WARM_MAX_ROUNDS}

\* Message::ImportPressed, once, as the first command.
IdleWarmImport ==
    /\ IsSome(bridge)
    /\ Unwrap(bridge).sent = <<>>
    /\ ImportPressed(ProbeAV.path, MaxIdleWarmSent)

\* Message::TimelineScrubbed: to position 1 once the project is shown, and to
\* position 2 while position 1 is being warmed.
IdleWarmScrub(t_tl) ==
    /\ IsSome(bridge)
    /\ IsSome(Unwrap(bridge).app.project)
    /\ \/ /\ t_tl = 1
          /\ Unwrap(bridge).app.latest_requested_playhead_tl = None
       \/ /\ t_tl = 2
          /\ Unwrap(bridge).app.latest_requested_playhead_tl = Some(1)
          /\ Unwrap(bridge).app.idle_warm_rounds \in IdleWarmScrubRounds
    /\ TimelineScrubbed(t_tl, MaxIdleWarmSent)

\* The worker thread in the idle-warm scenario.
IdleWarmWorker ==
    \/ Import(ProbeAV)
    \/ \E t \in AppScrubs : SetPlayhead(t, MaxCached)
    \/ WorkerSend

NextIdleWarm ==
    \/ BridgeReady(MaxIdleWarmSent)
    \/ IdleWarmImport
    \/ \E t \in AppScrubs : IdleWarmScrub(t)
    \/ BridgeEventReceived(MaxIdleWarmSent)
    \/ IdleWarmWorker

\* The worker thread runs and the runtime delivers the bridge's messages; the
\* user is free to do nothing.
SpecIdleWarm ==
    /\ InitApp
    /\ [][NextIdleWarm]_vars
    /\ WF_vars(BridgeReady(MaxIdleWarmSent))
    /\ WF_vars(BridgeEventReceived(MaxIdleWarmSent))
    /\ WF_vars(IdleWarmWorker)

\* The tick lies in no segment of the timeline.
InNoSegment(segments, t_tl) ==
    ~\E i \in DOMAIN segments :
        /\ segments[i].timeline_start <= t_tl
        /\ t_tl < segments[i].timeline_start + segments[i].timeline_duration

\* The tick is in a gap of the timeline (before or between its segments), or
\* the timeline is empty.
InGap(segments, t_tl) ==
    \/ segments = <<>>
    \/ /\ 0 <= t_tl
       /\ t_tl < duration_tl(segments)
       /\ InNoSegment(segments, t_tl)

\* C21: Scrubbing into a gap is not an error.  With a project loaded,
\* SetPlayhead at a tick that lies in no segment (a gap, or an empty timeline)
\* returns Ok with exactly one event, PlayheadChanged carrying the clamped tick
\* (the tick itself in a gap, 0 on an empty timeline), invokes no backend
\* decode and leaves the cache and the last preview target unchanged.
C21_GapScrub ==
    [][(last'.cmd = "SetPlayhead" /\ IsSome(project)) =>
         \A t_tl \in PlayTicks :
             (InGap(Segments(project), t_tl) /\ SetPlayhead(t_tl, MaxCached)) =>
                 LET clamped == IF Segments(project) = <<>> THEN 0 ELSE t_tl
                 IN /\ last'.result = "Ok"
                    /\ last'.events = <<PlayheadChanged(clamped)>>
                    /\ last'.decodes = <<>>
                    /\ playhead_tl' = clamped
                    /\ preview_cache' = preview_cache
                    /\ last_preview' = last_preview
                    /\ project' = project
      ]_vars

\* The playhead has been put into a gap of a timeline whose segment had been
\* previewed before: the cached frame and the last preview target are kept.
C21_Witness ==
    /\ last.cmd = "SetPlayhead"
    /\ last.result = "Ok"
    /\ last.events = <<PlayheadChanged(playhead_tl)>>
    /\ Segments(project) # <<>>
    /\ InNoSegment(Segments(project), playhead_tl)
    /\ preview_cache.entries # {}
    /\ IsSome(last_preview)

\* The source range a segment takes from a probed stream: the stream's range,
\* or (None, None) when the asset has no such stream.
TakesRange(src_in, src_out, stream) ==
    IF IsSome(stream)
    THEN src_in = Some(Unwrap(stream).src_in) /\ src_out = Some(Unwrap(stream).src_out)
    ELSE src_in = None /\ src_out = None

\* C25: Import replaces the whole project.  After every successful Import, in
\* any prior state, the project has exactly one asset and exactly one segment
\* with timeline_start 0, timeline_duration equal to the probed duration and
\* source ranges equal to the probed stream ranges (None for an absent
\* stream), the playhead is 0, the cache is empty, the last preview target is
\* unset, and the events are exactly [ProjectChanged, PlayheadChanged(0)].
C25_ImportReplaces ==
    [][Succeeded("Import") =>
         \A probed \in Probes :
             Import(probed) =>
                 LET p == Unwrap(project')
                     segment == p.segments[1]
                 IN /\ IsSome(project')
                    /\ Len(p.assets) = 1
                    /\ Len(p.segments) = 1
                    /\ p.assets[1].path = probed.path
                    /\ p.assets[1].duration_tl = probed.duration_tl
                    /\ segment.asset_id = p.assets[1].id
                    /\ segment.timeline_start = 0
                    /\ segment.timeline_duration = probed.duration_tl
                    /\ TakesRange(segment.src_in_video, segment.src_out_video,
                                  probed.video)
                    /\ TakesRange(segment.src_in_audio, segment.src_out_audio,
                                  probed.audio)
                    /\ playhead_tl' = 0
                    /\ preview_cache'.entries = {}
                    /\ preview_cache'.lru_order = <<>>
                    /\ last_preview' = None
                    /\ last'.events = <<ProjectChanged, PlayheadChanged(0)>>
      ]_vars

\* A second import has replaced a project that had been split: one asset and
\* one segment are left, with the ids the import allocated.
C25_Witness ==
    /\ last.cmd = "Import" /\ last.result = "Ok"
    /\ next_asset_id = 3
    /\ next_segment_id > 3
    /\ Len(Segments(project)) = 1
    /\ Len(Unwrap(project).assets) = 1
    /\ Segments(project)[1].id = next_segment_id - 1
    /\ playhead_tl = 0

\* The commands that need a loaded project.
ProjectCommands ==
    {"SetPlayhead", "Split", "Cut", "MoveSegment", "TrimSegmentStart",
     "TrimSegmentEnd", "Export"}

\* C27: Not-loaded guard.  In every state before the first successful Import
\* (no project is loaded), each of SetPlayhead, Split, Cut, MoveSegment,
\* TrimSegmentStart, TrimSegmentEnd and Export returns ProjectNotLoaded without
\* invoking the backend and without changing any engine state; CancelExport
\* returns an empty event list and changes no state in any state.
C27_NotLoadedGuard ==
    [][/\ (~IsSome(project) /\ last'.cmd \in ProjectCommands) =>
            /\ last'.result = "ProjectNotLoaded"
            /\ last'.events = <<>>
            /\ last'.decodes = <<>>
            /\ UNCHANGED evars
            /\ UNCHANGED panicked
       /\ last'.cmd = "CancelExport" =>
            /\ last'.result = "Ok"
            /\ last'.events = <<>>
            /\ last'.decodes = <<>>
            /\ UNCHANGED evars
            /\ UNCHANGED panicked
      ]_vars

\* Export has been refused before any import succeeded.
C27_Witness ==
    /\ ~IsSome(project)
    /\ last.cmd = "Export"
    /\ last.result = "ProjectNotLoaded"
    /\ next_asset_id = 1

\* `new` is `old` without exactly the segment at index i: its id is gone, every
\* other id is still there, once.
RemovesOnly(old, new, i) ==
    /\ Len(new) = Len(old) - 1
    /\ SegmentIdsOf(new) = SegmentIdsOf(old) \ {old[i].id}
    /\ \A j \in DOMAIN old : j # i => \E k \in DOMAIN new : new[k].id = old[j].id

\* C28: Cut target resolution.  cut(at_tl) with at_tl equal to the start of a
\* segment removes that segment and never the segment that ends at at_tl; with
\* at_tl strictly inside a segment it removes that segment; with at_tl in a
\* gap, negative, or at or beyond the end of the last segment it returns
\* SegmentNotFound and leaves the timeline unchanged.  Exactly one segment is
\* removed by a successful cut.
C28_CutTarget ==
    [][last'.cmd = "Cut" =>
         \A at_tl \in Ticks :
             (IsSome(project) /\ Cut(at_tl)) =>
                 LET old == Segments(project)
                     new == Segments(project')
                 IN /\ \A i \in DOMAIN old :
                        old[i].timeline_start = at_tl =>
                            /\ last'.result = "Ok"
                            /\ RemovesOnly(old, new, i)
                            /\ \A j \in DOMAIN old :
                                   SegEnd(old[j]) = at_tl =>
                                       old[j].id \in SegmentIdsOf(new)
                    /\ \A i \in DOMAIN old :
                        (old[i].timeline_start < at_tl /\ at_tl < SegEnd(old[i])) =>
                            /\ last'.result = "Ok"
                            /\ RemovesOnly(old, new, i)
                    /\ InNoSegment(old, at_tl) =>
                            /\ last'.result = "SegmentNotFound"
                            /\ project' = project
                    /\ last'.result = "Ok" => Len(new) = Len(old) - 1
                    /\ last'.result \in {"Ok", "SegmentNotFound"}
      ]_vars

\* A cut has removed the later of two segments and left the earlier one as it
\* was after the split at tick 2 (a cut at 2, the start of the later one, does
\* this).
C28_Witness ==
    /\ last.cmd = "Cut" /\ last.result = "Ok"
    /\ Len(Segments(project)) = 1
    /\ Segments(project)[1].timeline_start = 0
    /\ Segments(project)[1].timeline_duration = 2
    /\ next_segment_id = Segments(project)[1].id + 2

\* C29: Move frame.  In every reachable project, for every segment id and
\* every i64 new_start, a successful move_segment changes only the
\* timeline_start of the addressed segment: its id, asset_id,
\* timeline_duration and all four source bounds, the order and number of
\* segments, every other segment and the asset list are unchanged; with an id
\* that is not in the timeline it returns SegmentIdNotFound (and so changes
\* nothing).
C29_MoveFrame ==
    IsSome(project) =>
        \A id \in SegmentIds, new_start_tl \in Ticks :
            LET p == Unwrap(project)
                old == p.segments
                r == Project_move_segment(p, id, new_start_tl)
            IN IF id \in SegmentIdsOf(old)
               THEN /\ r.ok
                    /\ r.v.assets = p.assets
                    /\ Len(r.v.segments) = Len(old)
                    /\ \A j \in DOMAIN old :
                        IF old[j].id = id
                        THEN r.v.segments[j] =
                                 [old[j] EXCEPT !.timeline_start =
                                                    r.v.segments[j].timeline_start]
                        ELSE r.v.segments[j] = old[j]
               ELSE /\ ~r.ok
                    /\ r.err = "SegmentIdNotFound"

\* A move has succeeded on a timeline of three segments and left a gap before
\* the last one, whose audio range still begins where the splits left it: at
\* the out-point of the segment before it.
C29_Witness ==
    /\ last.cmd = "MoveSegment" /\ last.result = "Ok"
    /\ Len(Segments(project)) = 3
    /\ SegEnd(Segments(project)[2]) < Segments(project)[3].timeline_start
    /\ IsSome(Segments(project)[3].src_in_audio)
    /\ Segments(project)[3].src_in_audio = Segments(project)[2].src_out_audio
    /\ edits = 1

\* The source bound `after` is `before` shifted by exactly the rescaled delta.
ShiftedBy(before, after, stream, delta_tl) ==
    IF IsSome(before) /\ IsSome(stream)
    THEN after = Some(Unwrap(before)
                      + rescale(delta_tl, Rational(1, 1000000), Unwrap(stream).time_base))
    ELSE after = before

\* The source bound `after` is `before` shifted by the rescaled delta, the sum
\* kept within 0 and i64::MAX.
ShiftedByWithin(before, after, stream, delta_tl) ==
    IF IsSome(before) /\ IsSome(stream)
    THEN after = Some(clamp(Unwrap(before)
                            + rescale(delta_tl, Rational(1, 1000000),
                                      Unwrap(stream).time_base),
                            0, I64_MAX))
    ELSE after = before

\* What both trims leave alone in `new`, the timeline after a trim of the
\* segment at index i of `old`: the assets, the segment order, every other
\* segment, and the trimmed segment's id and asset.
TrimKeeps(p, q, i) ==
    /\ q.assets = p.assets
    /\ Len(q.segments) = Len(p.segments)
    /\ \A j \in DOMAIN p.segments : j # i => q.segments[j] = p.segments[j]
    /\ q.segments[i].id = p.segments[i].id
    /\ q.segments[i].asset_id = p.segments[i].asset_id

\* The frame of trim_segment_start (s) and trim_segment_end (e) on the segment
\* at index i of project p, without the shifted source bounds.
TrimFrame(p, s, e, i) ==
    LET old == p.segments[i]
        ns == s.segments[i]
        ne == e.segments[i]
    IN /\ TrimKeeps(p, s, i)
       /\ SegEnd(ns) = SegEnd(old)
       /\ ns.src_out_video = old.src_out_video
       /\ ns.src_out_audio = old.src_out_audio
       /\ TrimKeeps(p, e, i)
       /\ ne.timeline_start = old.timeline_start
       /\ ne.src_in_video = old.src_in_video
       /\ ne.src_in_audio = old.src_in_audio

\* C30 as stated: Trim frame.  trim_segment_start leaves the segment's end,
\* src_out_video and src_out_audio unchanged; trim_segment_end leaves
\* timeline_start, src_in_video and src_in_audio unchanged; both leave every
\* other segment, the segment order and the asset list unchanged, and shift
\* the trimmed source bound by rescale(delta_tl, 1/1000000, stream time base).
C30_TrimFrame ==
    IsSome(project) =>
        \A id \in SegmentIdsOf(Segments(project)), target \in Ticks :
        \A p \in {Unwrap(project)} :
        \A i \in {IndexOfId(p.segments, id)} :
        \A s \in {Project_trim_segment_start(p, id, target)} :
        \A e \in {Project_trim_segment_end(p, id, target)} :
        \A asset \in {asset_by_id(p, p.segments[i].asset_id).v} :
            /\ s.ok /\ e.ok
            /\ TrimFrame(p, s.v, e.v, i)
            /\ ShiftedBy(p.segments[i].src_in_video, s.v.segments[i].src_in_video,
                   asset.video,
                   s.v.segments[i].timeline_start - p.segments[i].timeline_start)
            /\ ShiftedBy(p.segments[i].src_in_audio, s.v.segments[i].src_in_audio,
                   asset.audio,
                   s.v.segments[i].timeline_start - p.segments[i].timeline_start)
            /\ ShiftedBy(p.segments[i].src_out_video, e.v.segments[i].src_out_video,
                   asset.video, SegEnd(e.v.segments[i]) - SegEnd(p.segments[i]))
            /\ ShiftedBy(p.segments[i].src_out_audio, e.v.segments[i].src_out_audio,
                   asset.audio, SegEnd(e.v.segments[i]) - SegEnd(p.segments[i]))

\* C30 (amended): the same frame, and the trimmed source bound becomes
\* old bound + rescale(delta_tl, 1/1000000, stream time base) kept within
\* 0 and i64::MAX: 0 when the sum is negative, i64::MAX when it is beyond.
C30_TrimFramePinned ==
    ProjectJustEdited =>
        \A id \in SegmentIdsOf(Segments(project)), target \in Ticks :
        \A p \in {Unwrap(project)} :
        \A i \in {IndexOfId(p.segments, id)} :
        \A s \in {Project_trim_segment_start(p, id, target)} :
        \A e \in {Project_trim_segment_end(p, id, target)} :
        \A asset \in {asset_by_id(p, p.segments[i].asset_id).v} :
            /\ s.ok /\ e.ok
            /\ TrimFrame(p, s.v, e.v, i)
            /\ ShiftedByWithin(p.segments[i].src_in_video, s.v.segments[i].src_in_video,
                   asset.video,
                   s.v.segments[i].timeline_start - p.segments[i].timeline_start)
            /\ ShiftedByWithin(p.segments[i].src_in_audio, s.v.segments[i].src_in_audio,
                   asset.audio,
                   s.v.segments[i].timeline_start - p.segments[i].timeline_start)
            /\ ShiftedByWithin(p.segments[i].src_out_video, e.v.segments[i].src_out_video,
                   asset.video, SegEnd(e.v.segments[i]) - SegEnd(p.segments[i]))
            /\ ShiftedByWithin(p.segments[i].src_out_audio, e.v.segments[i].src_out_audio,
                   asset.audio, SegEnd(e.v.segments[i]) - SegEnd(p.segments[i]))

\* A trim of the start has succeeded on the second of two segments of the
\* audio+video asset: it starts later, still ends where the asset ends, and
\* its audio in-point has moved on from the split point.
C30_Witness ==
    /\ last.cmd = "TrimSegmentStart" /\ last.result = "Ok"
    /\ Len(Segments(project)) = 2
    /\ SegEnd(Segments(project)[1]) < Segments(project)[2].timeline_start
    /\ SegEnd(Segments(project)[2]) = 4
    /\ IsSome(Segments(project)[2].src_in_video)
    /\ Unwrap(Segments(project)[2].src_in_audio)
           > Unwrap(Segments(project)[1].src_out_audio)
    /\ Segments(project)[2].src_out_audio = Some(8)

\* A plan has been built: by build_video_export_plan called directly, or by
\* Engine::export for the backend.
HasPlan ==
    /\ last.cmd \in {"build_video_export_plan", "Export"}
    /\ last.result = "Ok"

\* The video range of a timeline segment is non-empty.
VideoNonEmpty(segment) ==
    /\ IsSome(segment.src_in_video) /\ IsSome(segment.src_out_video)
    /\ Unwrap(segment.src_in_video) < Unwrap(segment.src_out_video)

\* The timeline segments with a non-empty video range, in timeline order.
Included(segments) == SelectSeq(segments, VideoNonEmpty)

\* The asset a timeline segment refers to.
AssetOf(p, segment) ==
    p.assets[CHOOSE a \in DOMAIN p.assets : p.assets[a].id = segment.asset_id]

\* The project without the segments whose video range, of an asset with a
\* video stream, is zero-length.
WithoutEmptyVideo(p) ==
    [p EXCEPT !.segments = SelectSeq(p.segments, LAMBDA sg :
        ~(/\ \E a \in DOMAIN p.assets :
                 p.assets[a].id = sg.asset_id /\ IsSome(p.assets[a].video)
          /\ IsSome(sg.src_in_video) /\ sg.src_in_video = sg.src_out_video))]

\* The plan segments are the included timeline segments with their video
\* ranges, and a zero-length video range changes nothing of the result.
SkipsEmptyVideo ==
    /\ HasPlan =>
         LET inc == Included(Segments(project)) IN
         /\ Len(last.plan.segments) = Len(inc)
         /\ \A i \in DOMAIN inc :
              /\ last.plan.segments[i].src_in_video = Unwrap(inc[i].src_in_video)
              /\ last.plan.segments[i].src_out_video = Unwrap(inc[i].src_out_video)
    /\ last.cmd = "build_video_export_plan" =>
         build_video_export_plan(WithoutEmptyVideo(Unwrap(project)))
             = build_video_export_plan(Unwrap(project))

FirstUse(paths, path) ==
    IF \E i \in DOMAIN paths : paths[i] = path
    THEN CHOOSE i \in DOMAIN paths :
            paths[i] = path /\ \A j \in 1..(i - 1) : paths[j] # path
    ELSE 0

\* C24: Export plan structure.  For every project with a plan, plan.inputs
\* contains no duplicate path and lists the paths in order of first use by an
\* included segment; every plan segment has input_index < len(inputs) with
\* inputs[input_index] equal to its asset's path; plan segments appear in
\* timeline order; audio settings are present exactly when some included
\* segment's asset has an audio stream, taken from the first such asset, and
\* then every plan segment carries an audio range and an audio time base.
C24_ExportPlanStructure ==
    HasPlan =>
        LET p == Unwrap(project)
            inc == Included(p.segments)
            inputs == last.plan.inputs
            segs == last.plan.segments
            paths == [i \in DOMAIN inc |-> AssetOf(p, inc[i]).path]
            with_audio == {i \in DOMAIN inc : IsSome(AssetOf(p, inc[i]).audio)}
        IN /\ \A i, j \in DOMAIN inputs : inputs[i] = inputs[j] => i = j
           /\ {inputs[i] : i \in DOMAIN inputs} = {paths[i] : i \in DOMAIN paths}
           /\ \A i, j \in DOMAIN inputs :
                i < j => FirstUse(paths, inputs[i]) < FirstUse(paths, inputs[j])
           /\ Len(segs) = Len(inc)
           /\ \A i \in DOMAIN segs :
                /\ segs[i].input_index \in 0..(Len(inputs) - 1)
                /\ inputs[segs[i].input_index + 1] = paths[i]
                /\ segs[i].src_in_video = Unwrap(inc[i].src_in_video)
                /\ segs[i].src_out_video = Unwrap(inc[i].src_out_video)
                /\ segs[i].src_video_time_base = Unwrap(AssetOf(p, inc[i]).video).time_base
           /\ IsSome(last.plan.audio) <=> with_audio # {}
           /\ with_audio # {} =>
                LET first == CHOOSE i \in with_audio : \A j \in with_audio : i <= j
                    stream == Unwrap(AssetOf(p, inc[first]).audio)
                IN /\ last.plan.audio = Some([sample_rate |-> stream.sample_rate,
                                              channels |-> stream.channels])
                   /\ \A i \in DOMAIN segs :
                        /\ IsSome(segs[i].src_in_audio)
                        /\ IsSome(segs[i].src_out_audio)
                        /\ IsSome(AssetOf(p, inc[i]).audio)
                        /\ segs[i].src_audio_time_base
                             = Some(Unwrap(AssetOf(p, inc[i]).audio).time_base)
           /\ with_audio = {} =>
                \A i \in DOMAIN segs :
                    /\ segs[i].src_in_audio = None
                    /\ segs[i].src_out_audio = None
                    /\ segs[i].src_audio_time_base = None

\* A plan of three segments of three assets, the first on b.mp4 and the
\* other two on the shared path a.mp4: two inputs in order of first use, and
\* the audio settings of the first asset.
C24_Witness ==
    /\ last.cmd = "build_video_export_plan" /\ last.result = "Ok"
    /\ Len(last.plan.segments) = 3
    /\ Segments(project)[1].asset_id = 2
    /\ Segments(project)[2].asset_id = 1
    /\ Segments(project)[3].asset_id = 3
    /\ last.plan.inputs = <<"b.mp4", "a.mp4">>
    /\ last.plan.segments[1].input_index = 0
    /\ last.plan.segments[2].input_index = 1
    /\ last.plan.segments[3].input_index = 1
    /\ last.plan.audio = Some([sample_rate |-> 44100, channels |-> 1])
    /\ last.plan.segments[3].src_audio_time_base = Some(Rational(1, 2000000))

\* C23: Exported audio stays in bounds after a sub-frame split.  When a split
\* has left a segment with a zero-length audio range, the exported audio
\* range of that segment is one audio tick long and ends at the segment's
\* stored src_out_audio (in = out - 1), so that no exported audio range
\* extends past the audio range of the segment.
C23_ExportedAudioInBounds ==
    (last.cmd = "Export" /\ last.result = "Ok" /\ IsSome(last.plan.audio)) =>
        LET inc == Included(Segments(project)) IN
        \A i \in DOMAIN inc :
            /\ inc[i].src_in_audio = inc[i].src_out_audio =>
                 /\ last.plan.segments[i].src_out_audio = inc[i].src_out_audio
                 /\ last.plan.segments[i].src_in_audio
                      = Some(Unwrap(inc[i].src_out_audio) - 1)
            /\ Unwrap(last.plan.segments[i].src_out_audio)
                 <= Unwrap(inc[i].src_out_audio)

\* The events of the handled commands, one command after the other.
RECURSIVE Emitted(_)
Emitted(handled) ==
    IF handled = <<>> THEN <<>>
    ELSE Emitted(SubSeq(handled, 1, Len(handled) - 1)) \o handled[Len(handled)].events

\* `prefix` is the beginning of `whole`.
IsPrefix(prefix, whole) ==
    /\ Len(prefix) <= Len(whole)
    /\ SubSeq(whole, 1, Len(prefix)) = prefix

\* Within the events of one command no ProjectChanged comes after a
\* PlayheadChanged or PreviewFrameReady, and each PreviewFrameReady of a
\* SetPlayhead comes after a PlayheadChanged with the same t_tl.
EventsInOrder(command, events) ==
    /\ \A i, j \in DOMAIN events :
         (i < j /\ events[j].type = "ProjectChanged") =>
             events[i].type \notin {"PlayheadChanged", "PreviewFrameReady"}
    /\ \A j \in DOMAIN events :
         (command.cmd = "SetPlayhead" /\ events[j].type = "PreviewFrameReady") =>
             \E i \in 1..(j - 1) :
                 /\ events[i].type = "PlayheadChanged"
                 /\ events[i].t_tl = events[j].t_tl

\* C26: Event ordering.  Within the events of one command ProjectChanged is
\* never emitted after a PlayheadChanged or PreviewFrameReady, and
\* PlayheadChanged always precedes the PreviewFrameReady of the same
\* SetPlayhead (both carrying the same t_tl); the bridge worker handles
\* commands one at a time in the order sent and delivers all events of a
\* command, in emission order, before any event of a later command; a failed
\* command yields exactly one Error event.
C26_EventOrdering ==
    IsSome(bridge) =>
        LET b == Unwrap(bridge) IN
        /\ \A k \in DOMAIN b.handled :
             /\ EventsInOrder(b.handled[k].command, b.handled[k].events)
             /\ b.handled[k].result \notin {"Ok", "panic"} =>
                  /\ Len(b.handled[k].events) = 1
                  /\ b.handled[k].events[1].type = "Error"
             /\ b.handled[k].result = "Ok" =>
                  \A i \in DOMAIN b.handled[k].events :
                      b.handled[k].events[i].type # "Error"
        /\ [k \in DOMAIN b.handled |-> b.handled[k].command] \o b.commands = b.sent
        /\ IF b.receiver
           THEN b.received \o b.channel \o b.pending = Emitted(b.handled)
           ELSE IsPrefix(b.received, Emitted(b.handled))
        /\ last.cmd # "new" =>
             /\ Len(b.handled) > 0
             /\ b.handled[Len(b.handled)].command.cmd = last.cmd
             /\ b.handled[Len(b.handled)].result = last.result

\* The UI has sent Import, SetPlayhead and a Split at the start of the
\* timeline, and has received the events of the three in that order: those
\* of the import, those of the scrub with its frame, and one Error.
C26_Witness ==
    /\ IsSome(bridge)
    /\ Len(Unwrap(bridge).handled) = 3
    /\ Unwrap(bridge).handled[3].command = Command("Split", <<0>>)
    /\ [i \in DOMAIN Unwrap(bridge).received |-> Unwrap(bridge).received[i].type]
         = <<"ProjectChanged", "PlayheadChanged",
             "PlayheadChanged", "PreviewFrameReady", "Error">>
    /\ SubSeq(Unwrap(bridge).received, 2, 5) =
         <<PlayheadChanged(0), PlayheadChanged(1), PreviewFrameReady(1),
           ErrorEvent(Unwrap(bridge).handled[3].result)>>
    /\ Unwrap(bridge).handled[3].result # "Ok"

\* The structure of a cache: no more entries than the capacity, and the LRU
\* order lists exactly the keys of the entries, none twice.
CacheWellFormed(cache) ==
    /\ Cardinality(cache.entries) <= cache.capacity
    /\ {cache.lru_order[i] : i \in DOMAIN cache.lru_order} = cache.entries
    /\ \A i, j \in DOMAIN cache.lru_order :
         cache.lru_order[i] = cache.lru_order[j] => i = j

\* The bucket of a key is floor(max(0, t) / bucket size), 0 for every t <= 0.
BucketOfKey(cache, source_tl) ==
    LET bucket == make_key(cache, "a.mp4", source_tl).bucket
        t == IF source_tl > 0 THEN source_tl ELSE 0
    IN /\ bucket * cache.bucket_size_tl <= t
       /\ t < (bucket + 1) * cache.bucket_size_tl
       /\ source_tl <= 0 => bucket = 0

LastTick(segments) == Max2(0, duration_tl(segments) - 1)

\* C37: Playhead range invariant.  In every reachable engine state with a
\* project loaded, 0 <= playhead <= max(0, duration - 1), where duration is
\* the end of the last segment (0 for an empty timeline), whatever i64
\* argument SetPlayhead had and whatever cut, move or trim shortened the
\* timeline; every PlayheadChanged event carries a value in that range.
C37_PlayheadRange ==
    IsSome(project) =>
        /\ 0 <= playhead_tl
        /\ playhead_tl <= LastTick(Unwrap(project).segments)
        /\ \A i \in DOMAIN last.events :
             last.events[i].type = "PlayheadChanged" =>
                /\ 0 <= last.events[i].t_tl
                /\ last.events[i].t_tl <= LastTick(Unwrap(project).segments)

\* A cut has shortened the timeline under the playhead: the playhead is the
\* new last tick, beyond every tick of PlayTicks that SetPlayhead could have
\* put it on, so it stood on the last tick of the longer timeline before.
C37_Witness ==
    /\ IsSome(project)
    /\ last.cmd = "Cut"
    /\ last.result = "Ok"
    /\ \A t \in PlayTicks \ {I64_MAX} : playhead_tl > t
    /\ playhead_tl = duration_tl(Unwrap(project).segments) - 1


\* C38: Playhead events track the engine playhead.  Whenever a command
\* changes the engine playhead (the re-clamp after cut, move and trim
\* included) it emits a PlayheadChanged with the new value in the same event
\* list, so that after every command the engine's playhead equals the t_tl of
\* the most recent PlayheadChanged event it has emitted.
C38_PlayheadEvents ==
    [][playhead_tl' # playhead_tl =>
          /\ last'.result = "Ok"
          /\ \E i \in DOMAIN last'.events :
                last'.events[i] = PlayheadChanged(playhead_tl')
      ]_vars


\* The segment ids of a project's timeline, none when no project is loaded.
TimelineIds(proj) ==
    IF IsSome(proj)
    THEN {Unwrap(proj).segments[i].id : i \in DOMAIN Unwrap(proj).segments}
    ELSE {}

\* The ids of a timeline are pairwise distinct and below `next`, and every
\* segment's asset is in the project.
IdsWellFormed(proj, next) ==
    IsSome(proj) =>
        LET segments == Unwrap(proj).segments IN
        /\ \A i, j \in DOMAIN segments : segments[i].id = segments[j].id => i = j
        /\ \A i \in DOMAIN segments :
             /\ segments[i].id < next
             /\ \E k \in DOMAIN Unwrap(proj).assets :
                    Unwrap(proj).assets[k].id = segments[i].asset_id

\* C40: Segment ids are unique and never reused.  In every reachable engine
\* state all segment ids in the timeline are pairwise distinct and strictly
\* smaller than next_segment_id, and every segment references an asset of
\* the project; next_segment_id never decreases and an id that enters the
\* timeline is at least the next_segment_id of the state before, so an id
\* removed by a cut or replaced by an import is never assigned again.
C40_SegmentIds ==
    [][/\ IdsWellFormed(project', next_segment_id')
       /\ next_segment_id' >= next_segment_id
       /\ \A id \in TimelineIds(project') \ TimelineIds(project) :
            id >= next_segment_id
      ]_vars

\* A split after a cut: the id the cut removed is below every id of the
\* timeline's later pieces, and the split took a fresh one.
C40_Witness ==
    /\ IsSome(project)
    /\ last.cmd = "Split"
    /\ last.result = "Ok"
    /\ history.splits >= 2
    /\ Len(Unwrap(project).segments) = 2
    /\ next_segment_id - 1 \in TimelineIds(project)
    /\ \E id \in 1..(next_segment_id - 1) :
         id > history.import_segment_id /\ id \notin TimelineIds(project)


(***************************************************************************)
(* Trims of an asset whose video stream starts before source timestamp 0.  *)
(***************************************************************************)
\* api.rs tests: sample_probed_media_with_negative_video_start
sample_probed_media_with_negative_video_start ==
    [sample_probed_media EXCEPT
        !.video = Some(ProbedVideoStream(Rational(1, 90000),
            Some(Rational(30000, 1001)),
            -9000,
            -9000 + rescale(1200000, TIMELINE_TIME_BASE, Rational(1, 90000))))]

\* Split points and trim targets on the sample asset's timeline.
NegativeStartTicks == {0, 400000, 800000, 1200000}

NextNegativeStart ==
    \/ Import(sample_probed_media_with_negative_video_start)
    \/ \E t \in NegativeStartTicks : Split(t)
    \/ \E id \in SegmentIds, t \in NegativeStartTicks : TrimSegmentStart(id, t, MaxEdits)
    \/ \E id \in SegmentIds, t \in NegativeStartTicks : TrimSegmentEnd(id, t, MaxEdits)

\* The engine under imports of the asset with a negative video start, splits
\* and trims.
SpecNegativeStart == Init /\ [][NextNegativeStart]_vars

\* C39: A trim to the current boundary is a no-op on the project.  For every
\* reachable project (including one imported from an asset whose stream
\* starts at a negative source timestamp), trim_segment_start(id, current
\* timeline_start) and trim_segment_end(id, current end) leave every field of
\* every segment unchanged.
C39_TrimToBoundary ==
    IsSome(project) =>
        \A i \in DOMAIN Unwrap(project).segments :
            LET segment == Unwrap(project).segments[i] IN
            /\ Project_trim_segment_start(Unwrap(project), segment.id,
                                          segment.timeline_start)
                 = Ok(Unwrap(project))
            /\ Project_trim_segment_end(Unwrap(project), segment.id, SegEnd(segment))
                 = Ok(Unwrap(project))


\* C31: No panic.  Starting from any import with duration >= 1, src_in <=
\* src_out and valid time bases, no sequence of Split, Cut, MoveSegment,
\* TrimSegmentStart, TrimSegmentEnd, SetPlayhead and Export commands with
\* arbitrary i64 and id arguments reaches an i64 overflow or a clamp whose
\* lower bound exceeds its upper bound: every command returns Ok or a typed
\* error, and the engine thread never panics.
C31_NoPanic ==
    /\ ~panicked
    /\ last.result # "panic"


\* The number of events the engine emitted for the first k handled commands.
EmittedBy(b, k) == Len(Emitted(SubSeq(b.handled, 1, k)))

\* The k-th command the UI sent is answered: the engine has handled it and the
\* UI has received every event the engine emitted for it.
Answered(b, k) ==
    /\ k <= Len(b.handled)
    /\ EmittedBy(b, k) <= Len(b.received)

\* The commands named in `names` that the UI sent and that are unanswered.
Unanswered(b, names) ==
    {k \in DOMAIN b.sent : b.sent[k].cmd \in names /\ ~Answered(b, k)}


\* The SetPlayhead commands of the UI in flight: sent, and no event the
\* engine emitted for them has reached the UI yet.
SetPlayheadInFlight(b) ==
    {k \in DOMAIN b.sent :
        /\ b.sent[k].cmd = "SetPlayhead"
        /\ ~(/\ k <= Len(b.handled)
             /\ EmittedBy(b, k - 1) < Len(b.received))}

\* The next event of the event channel is the response to a SetPlayhead in
\* flight: the first event the engine emitted for it.
ResponseArrives(b) ==
    /\ b.channel # <<>>
    /\ \E k \in SetPlayheadInFlight(b) :
          /\ k <= Len(b.handled)
          /\ EmittedBy(b, k - 1) = Len(b.received)
          /\ b.handled[k].events # <<>>

\* C32: UI playhead coalescing.  While a SetPlayhead request of the UI is in
\* flight, further scrub positions send no command and overwrite a single
\* pending slot; when the response to the in-flight request arrives, exactly
\* one SetPlayhead carrying the most recent scrub position is sent; and a
\* response whose t_tl differs from the latest requested position changes
\* neither the UI playhead nor the preview image.
C32_PlayheadCoalescing ==
    [][IsSome(bridge) /\ IsSome(bridge') =>
         LET b == Unwrap(bridge)
             after == Unwrap(bridge')
         IN /\ \A t \in AppScrubs :
                  (/\ SetPlayheadInFlight(b) # {}
                   /\ TimelineScrubbed(t, MaxAppSent))
                  => /\ after.sent = b.sent
                     /\ after.app.pending_playhead_tl = Some(clamp_playhead(b.app, t))
            /\ (/\ ResponseArrives(b)
                /\ IsSome(b.app.pending_playhead_tl)
                /\ BridgeEventReceived(MaxAppSent))
               => after.sent =
                     Append(b.sent,
                            Command("SetPlayhead",
                                    <<Unwrap(b.app.latest_requested_playhead_tl)>>))
            /\ (/\ b.channel # <<>>
                /\ Head(b.channel).type \in {"PlayheadChanged", "PreviewFrameReady"}
                /\ IsSome(b.app.latest_requested_playhead_tl)
                /\ Unwrap(b.app.latest_requested_playhead_tl) # Head(b.channel).t_tl
                /\ BridgeEventReceived(MaxAppSent))
               => /\ after.app.playhead_tl = b.app.playhead_tl
                  /\ after.app.preview_image = b.app.preview_image]_vars

\* C33: At most one SetPlayhead in flight.  In every interleaving of user
\* scrubs, engine processing and event delivery, at most one SetPlayhead
\* command sent by the UI is unanswered at any time; a command is answered
\* once the UI has received every event the engine emitted for it.
C33_OneSetPlayheadInFlight ==
    IsSome(bridge) =>
        Cardinality(Unanswered(Unwrap(bridge), {"SetPlayhead"})) <= 1


\* The k-th command the UI sent is answered with its ProjectChanged or Error
\* event: the engine has handled it and the UI has received the ProjectChanged
\* or Error event the engine emitted for it.
AnsweredByProjectOrError(b, k) ==
    /\ k <= Len(b.handled)
    /\ \E i \in DOMAIN b.handled[k].events :
          /\ b.handled[k].events[i].type \in {"ProjectChanged", "Error"}
          /\ EmittedBy(b, k - 1) + i <= Len(b.received)


\* Nothing is on its way between the UI and the engine.
IdleWarmQuiet ==
    /\ IsSome(bridge)
    /\ Unwrap(bridge).commands = <<>>
    /\ Unwrap(bridge).pending = <<>>
    /\ Unwrap(bridge).channel = <<>>

\* No command is sent more than 1 + IDLE_WARM_MAX_ROUNDS times in a row: the
\* user's request and its re-sends.
IdleWarmBounded(b) ==
    /\ b.app.idle_warm_rounds <= IDLE_WARM_MAX_ROUNDS
    /\ \A i \in DOMAIN b.sent :
          i + IDLE_WARM_MAX_ROUNDS + 1 <= Len(b.sent) =>
             \E m \in (i + 1)..(i + IDLE_WARM_MAX_ROUNDS + 1) : b.sent[m] # b.sent[i]

\* One message of the idle-warm scenario, from the UI `b` to the UI `after`.
IdleWarmStep(b, after) ==
    /\ Len(after.sent) <= Len(b.sent) + 1
    /\ (/\ b.channel # <<>>
        /\ Head(b.channel).type = "PreviewFrameReady"
        /\ BridgeEventReceived(MaxIdleWarmSent))
       => LET t_tl == Head(b.channel).t_tl
              same == b.app.idle_warm_target_tl = Some(t_tl)
              idle == /\ IsSome(b.app.project)
                      /\ ~b.app.is_playing
                      /\ b.app.latest_requested_playhead_tl = Some(t_tl)
                      /\ ~IsSome(b.app.pending_playhead_tl)
                      /\ b.app.idle_warm_target_tl \in {None, Some(t_tl)}
          IN /\ (idle /\ b.app.idle_warm_rounds < IDLE_WARM_MAX_ROUNDS)
                => /\ after.sent = Append(b.sent, Command("SetPlayhead", <<t_tl>>))
                   /\ after.app.idle_warm_target_tl = Some(t_tl)
                   /\ after.app.idle_warm_rounds =
                         (IF same THEN b.app.idle_warm_rounds ELSE 0) + 1
             /\ (idle /\ same /\ b.app.idle_warm_rounds = IDLE_WARM_MAX_ROUNDS)
                => /\ after.sent = b.sent
                   /\ after.app.idle_warm_rounds = IDLE_WARM_MAX_ROUNDS
    /\ (\E t \in AppScrubs : IdleWarmScrub(t))
       => /\ after.app.idle_warm_rounds = 0
          /\ after.app.idle_warm_target_tl = None

\* C35: The idle-warm loop terminates.  With a project loaded, playback
\* stopped and no further user input, after a PreviewFrameReady for the latest
\* requested position the UI re-sends SetPlayhead for that same position once
\* per received PreviewFrameReady, at most IDLE_WARM_MAX_ROUNDS (120) times for
\* one target, and then sends no further command; a user scrub resets the
\* round counter and the target.
C35_IdleWarmTerminates ==
    /\ [](IsSome(bridge) => IdleWarmBounded(Unwrap(bridge)))
    /\ [][IsSome(bridge) /\ IsSome(bridge')
            => IdleWarmStep(Unwrap(bridge), Unwrap(bridge'))]_vars
    /\ <>[]IdleWarmQuiet

\* The loop has run its 120 rounds on position 1, the user has scrubbed to
\* position 2, and the loop has run its 120 rounds again and has stopped.
C35_Witness ==
    /\ IdleWarmQuiet
    /\ Unwrap(bridge).app.idle_warm_rounds = IDLE_WARM_MAX_ROUNDS
    /\ Unwrap(bridge).app.idle_warm_target_tl = Some(2)
    /\ Len(Unwrap(bridge).sent) = 1 + 2 * (1 + IDLE_WARM_MAX_ROUNDS)
    /\ Len(Unwrap(bridge).received) = Len(Emitted(Unwrap(bridge).handled))

\* C34: At most one Split or Cut outstanding.  The UI never sends a Split or
\* Cut command while an earlier Split or Cut command it sent has not yet been
\* answered with the ProjectChanged or Error event produced by that command,
\* in every interleaving with SetPlayhead, move, trim and export commands and
\* their events (an import pressed in between starts over and is left out).
C34_OneSplitOrCutOutstanding ==
    [][IsSome(bridge) /\ IsSome(bridge') =>
         \A k \in (Len(Unwrap(bridge).sent) + 1)..Len(Unwrap(bridge').sent) :
            Unwrap(bridge').sent[k].cmd \in {"Split", "Cut"} =>
               \A j \in 1..(k - 1) :
                  (/\ Unwrap(bridge').sent[j].cmd \in {"Split", "Cut"}
                   /\ \A m \in (j + 1)..(k - 1) :
                         Unwrap(bridge').sent[m].cmd # "Import")
                  => AnsweredByProjectOrError(Unwrap(bridge), j)]_vars

=============================================================================
